---------------------------- MODULE Spec2Model ----------------------------
(***************************************************************************)
(* A model of the agentx automation core:                                  *)
(*   - the security gate (agentx/security.py) and WebNavigator.goto,       *)
(*   - the browser pool (agentx/executor/browser_pool.py),                 *)
(*   - the orchestration loop (agentx/agents/orchestrator.py) with the     *)
(*     run manager (agentx/runtime/run_manager.py).                        *)
(* Strings are sequences of one-character strings, so that suffix tests    *)
(* and URL parsing are computed as the code computes them.                 *)
(***************************************************************************)
EXTENDS Integers, Sequences, FiniteSets, Bags, TLC

VARIABLES
    \* --- the allowlist check applied to one URL (pure function)
    a_allow, a_url, a_checked, a_result,
    \* --- one WebNavigator with its SecurityManager, and its goto calls
    n_settings,     \* settings.allowed_domains, the configured allowlist
    n_rate_limit,   \* settings.rate_limit_per_min
    n_run_arg,      \* the allowed_domains argument of the run
    n_allowed,      \* nav.security.allowed_domains
    n_buckets,      \* nav.security.buckets: origin -> TokenBucket
    n_now,          \* time.time(), in ticks of half a second
    n_pc,           \* "idle", "try" (an attempt is due), "backoff" (the retry wait)
    n_url,          \* the url of the goto call
    n_attempt,      \* tenacity's attempt number
    n_exc,          \* the exception of the last failed attempt
    n_gate_evals,   \* is_domain_allowed evaluations of the call
    n_rate_evals,   \* enforce_rate_limit evaluations of the call
    n_waits,        \* backoff waits of the call
    n_navs,         \* page.goto invocations of the call
    n_outcome,      \* how the last call ended
    n_calls,        \* goto calls made so far
    n_via,          \* how the call in hand was reached: "goto" or "open_new_tab"
    n_navigated,    \* urls handed to page.goto since the navigator was made
    \* --- one BrowserPool and the threads that use it
    p_started,          \* self._started
    p_gen,              \* how many times start() has built the pool
    p_browsers,         \* self._browsers: browser objects <<generation, slot>>
    p_pages_queues,     \* self._pages_queues: queue objects <<generation, slot>>
    p_q,                \* the content of every queue object made so far
    p_lock,             \* self._lock: "free" or the thread that holds it
    p_closed_pages,     \* pages on which page.close() was called
    p_closed_browsers,  \* browsers on which close() was called
    p_overflow,         \* temporary pages made in this generation
    p_discarded,        \* the pages a release did not enqueue
    p_rare,             \* restarts, temporary pages and repeated releases so far
    th,                 \* each thread's position and locals
    \* --- the global run_manager and the run it started (MultiAgentRunner.run)
    rm_running,         \* run_manager.state.running
    rm_stop_event,      \* run_manager.state.stop_event
    rm_last_result,     \* run_manager.state.last_result: of which run, and whether an error
    rm_starts,          \* runs started so far
    r_pc,               \* where the run's thread is
    r_plan,             \* the variable plan
    r_iter,             \* the list that the for statement iterates
    r_pos,              \* idx: how many items the for statement has taken
    r_observations,     \* observations
    r_dispatched,       \* the steps handed to _execute_step, in order
    r_replanned,        \* the plan was replaced and no step was dispatched since
    r_nav_started,      \* the navigator of the run is started
    r_result,           \* what run returned
    r_replans,          \* planner.replan calls of the run
    r_failure,          \* the observation handed to the last replan of the except clause
    r_artifacts,        \* the artifacts stored for the run
    \* --- a second run: MultiAgentRunner.run called directly, as app.py does
    d_pc,               \* where that run's thread is
    d_iter,             \* the list its for statement iterates
    d_pos,              \* how many items its for statement has taken
    d_dispatched,       \* the steps it handed to _execute_step, in order
    \* --- one TokenBucket and its consume calls
    b_bucket,           \* the bucket
    b_now,              \* time.time(), in ticks of half a second
    b_call,             \* the last consume call: its argument, its result, the bucket before
    \* --- the selectors table of SelectorMemory, for one host and one label
    s_table,            \* the rows, in id order: [action, selector, success_count]
    \* --- one navigator's click_best / type_best calls
    v_pc,               \* "idle" or the stage of the fallback chain that is due
    v_kind,             \* "click" or "type"
    v_host,             \* whether page.url gave a host
    v_mem,              \* what sel_mem.get returned, cut to its first MemLimit
    v_i,                \* the memory descriptor that is due
    v_tried,            \* the local list tried
    v_stages,           \* the locator attempts of this call, in order: <<stage, descriptor>>
    v_saves,            \* the save_success calls of this call
    v_table0,           \* the table when the call began
    v_outcome,          \* "none", "returned" or "raised"
    v_acted,            \* <<stage, descriptor>> of the attempt that clicked or filled, or <<>>
    v_error,            \* what a raised call handed to its caller
    v_calls,            \* calls so far
    \* --- concurrent save_success calls on one (host, action, label, selector)
    c_th,               \* per caller: where it is, and what its SELECT read
    c_lock,             \* the connection that holds the database's write lock, or "free"
    c_table0,           \* the table before the calls
    \* --- one SelectorMemory with all its columns, called by one caller
    m_table,            \* the rows, in id order
    m_now,              \* time.time()
    m_call,             \* the last get or save_success call, its arguments and what it did
    m_saves,            \* save_success calls so far
    \* --- one call of a primitive operation (goto, click, type) under tenacity
    t_op,               \* the operation
    t_pc,               \* "idle", "try" or "backoff"
    t_attempts,         \* how often the body ran in this call
    t_excs,             \* what the failed attempts raised, in order
    t_outcome,          \* "none", "ok", or what the call raised
    t_slept,            \* ticks slept between the attempts of this call
    t_calls,            \* calls so far
    \* --- one step through parse_action and Tools.apply
    x_policy,           \* the PermissionPolicy of the Tools object
    x_step,             \* the step text, a sequence of characters
    x_pc,               \* "new", "parsed" or "applied"
    x_parts,            \* parse_action's local list parts
    x_act,              \* <<>> for None, else <<the Action>>
    x_used,             \* what apply handed to the navigator: target, text, number
    x_page_ops,         \* the page operations apply and the navigator carried out
    x_result,           \* <<>>, or how apply ended: <<[outcome, value]>> and what it met
    \* --- one call of sanitize_input
    z_in,               \* the text given
    z_done,             \* whether the call was made
    z_out,              \* the text returned
    \* --- one MultiAgentRunner.run loop, statement by statement
    e_pc,               \* where the loop is
    e_idx,              \* idx of enumerate(plan, start=1)
    e_cur,              \* <<[who, obs]>> once _execute_step returned, <<>> else
    e_exec,             \* what _execute_step did in every iteration so far
    e_observations,     \* the list observations
    e_steps,            \* the rows of the table steps of this run
    e_verdicts,         \* what validator.validate answered, by idx
    e_replans,          \* the planner.replan calls: idx and kind of observation
    \* --- one WebNavigator.type or type_best call and the fills it makes
    f_pc,               \* "idle", or the function that runs
    f_text,             \* the argument text
    f_stage,            \* the stage of type_best that comes next
    f_i,                \* selectors from memory tried so far
    f_attempt,          \* attempts of type made so far
    f_fills,            \* every fill call made: the stage and the text passed
    f_outcome,          \* "none", "returned", "raised"
    f_calls,            \* calls made so far
    \* --- enforce_rate_limit called by several threads on one SecurityManager
    q_limit,            \* rate_limit_per_min
    q_buckets,          \* self.buckets.get(origin): <<>> or <<bucket>>
    q_tokens,           \* tokens of every TokenBucket made, by number
    q_th,               \* every thread: where it is, its bucket, what it read
    \* --- one SimpleVectorStore
    k_hash,             \* hash(token) % dim of this process, by token
    k_docs,             \* self.docs (self.vecs is their embedding)
    k_call,             \* the last similarity_search: <<[query, k, result]>>
    \* --- BaseAgent._execute_step given one step
    l_step,             \* the step, as text
    l_done,             \* whether _execute_step ran
    l_result,           \* <<[branch, url]>>: the branch taken, the url navigated to
    \* --- one RunManager whose start and stop are called by several threads
    w_clock,            \* the calls of start and stop entered so far
    w_running,          \* self.state.running
    w_stop_event,       \* self.state.stop_event: <<>> clear, <<c>> set by the stop call c
    w_last_result,      \* self.state.last_result: <<>> for None
    w_callers,          \* the threads that call start or stop: where each is
    w_runs,             \* the threads made by start, in the order they were made
    \* --- one WebNavigator and the calls of its start, stop, __enter__ and __exit__
    h_playwright,       \* self._playwright: FALSE for None
    h_browser,          \* self.browser: <<>> for None, <<headless>> once launched
    h_context,          \* self.context: <<>> for None, <<ctx_opts>> once made
    h_page,             \* self.page: FALSE for None
    h_live,             \* the playwright objects made and not closed yet
    h_cfg,              \* the OrchestratorConfig of the run: headless and downloads_dir
    h_op,               \* the last call made: "none", "enter", "start", "stop", "exit"
    h_args,             \* the arguments of the last call of start
    h_before,           \* the four handles as they were when the last call was made
    h_raised,           \* whether the last call raised
    h_calls             \* the calls made so far

allowVars == <<a_allow, a_url, a_checked, a_result>>
navVars == <<n_settings, n_rate_limit, n_run_arg, n_allowed, n_buckets, n_now, n_pc,
             n_url, n_attempt, n_exc, n_gate_evals, n_rate_evals, n_waits, n_navs,
             n_outcome, n_calls, n_via, n_navigated>>

poolVars == <<p_started, p_gen, p_browsers, p_pages_queues, p_q, p_lock, p_closed_pages,
              p_closed_browsers, p_overflow, p_discarded, p_rare, th>>

runVars == <<rm_running, rm_stop_event, rm_last_result, rm_starts, r_pc, r_plan, r_iter,
             r_pos, r_observations, r_dispatched, r_replanned, r_nav_started, r_result,
             r_replans, r_failure, r_artifacts>>

directVars == <<d_pc, d_iter, d_pos, d_dispatched>>

bucketVars == <<b_bucket, b_now, b_call>>

\* the components that have a specification of their own further down
selVars == <<s_table>>
resolveVars == <<v_pc, v_kind, v_host, v_mem, v_i, v_tried, v_stages, v_saves, v_table0,
                 v_outcome, v_acted, v_error, v_calls>>
saveVars == <<c_th, c_lock, c_table0>>
memVars == <<m_table, m_now, m_call, m_saves>>
retryVars == <<t_op, t_pc, t_attempts, t_excs, t_outcome, t_slept, t_calls>>
toolsVars == <<x_policy, x_step, x_pc, x_parts, x_act, x_used, x_page_ops, x_result>>
sanVars == <<z_in, z_done, z_out>>
stepVars == <<e_pc, e_idx, e_cur, e_exec, e_observations, e_steps, e_verdicts, e_replans>>
fillVars == <<f_pc, f_text, f_stage, f_i, f_attempt, f_fills, f_outcome, f_calls>>
raceVars == <<q_limit, q_buckets, q_tokens, q_th>>
storeVars == <<k_hash, k_docs, k_call>>
looseVars == <<l_step, l_done, l_result>>
mgrVars == <<w_clock, w_running, w_stop_event, w_last_result, w_callers, w_runs>>
sessVars == <<h_playwright, h_browser, h_context, h_page, h_live, h_cfg, h_op, h_args, h_before, h_raised, h_calls>>
restVars == <<bucketVars, selVars, resolveVars, saveVars, memVars, retryVars, toolsVars, sanVars, stepVars, fillVars, raceVars, storeVars, looseVars, mgrVars, sessVars>>

vars == <<allowVars, navVars, poolVars, runVars, directVars, restVars>>

(***************************************************************************)
(* Each specification below runs one component; the variables of the      *)
(* others rest at these values.                                            *)
(***************************************************************************)
\* allowed_domains=None
NoneArg == [none |-> TRUE, domains |-> {}]

ParkAllow ==
    /\ a_allow = {}
    /\ a_url = <<>>
    /\ a_checked = FALSE
    /\ a_result = FALSE

ParkNav ==
    /\ n_settings = {}
    /\ n_rate_limit = 0
    /\ n_run_arg = NoneArg
    /\ n_allowed = {}
    /\ n_buckets = <<>>
    /\ n_now = 0
    /\ n_pc = "idle"
    /\ n_url = <<>>
    /\ n_attempt = 0
    /\ n_exc = "none"
    /\ n_gate_evals = 0
    /\ n_rate_evals = 0
    /\ n_waits = 0
    /\ n_navs = 0
    /\ n_outcome = "none"
    /\ n_calls = 0
    /\ n_via = "none"
    /\ n_navigated = {}

ParkPool ==
    /\ p_started = FALSE
    /\ p_gen = 0
    /\ p_browsers = <<>>
    /\ p_pages_queues = <<>>
    /\ p_q = <<>>
    /\ p_lock = "free"
    /\ p_closed_pages = {}
    /\ p_closed_browsers = {}
    /\ p_overflow = 0
    /\ p_discarded = {}
    /\ p_rare = 0
    /\ th = <<>>

ParkRun ==
    /\ rm_running = FALSE
    /\ rm_stop_event = FALSE
    /\ rm_last_result = <<>>
    /\ rm_starts = 0
    /\ r_pc = "idle"
    /\ r_plan = <<>>
    /\ r_iter = <<>>
    /\ r_pos = 0
    /\ r_observations = <<>>
    /\ r_dispatched = <<>>
    /\ r_replanned = FALSE
    /\ r_nav_started = FALSE
    /\ r_result = <<>>
    /\ r_replans = 0
    /\ r_failure = <<>>
    /\ r_artifacts = <<>>

ParkDirect ==
    /\ d_pc = "idle"
    /\ d_iter = <<>>
    /\ d_pos = 0
    /\ d_dispatched = <<>>

ParkBucket ==
    /\ b_bucket = <<>>
    /\ b_now = 0
    /\ b_call = <<>>

ParkSel ==
    /\ s_table = <<>>

ParkResolve ==
    /\ v_pc = "idle"
    /\ v_kind = "none"
    /\ v_host = FALSE
    /\ v_mem = <<>>
    /\ v_i = 0
    /\ v_tried = <<>>
    /\ v_stages = <<>>
    /\ v_saves = 0
    /\ v_table0 = <<>>
    /\ v_outcome = "none"
    /\ v_acted = <<>>
    /\ v_error = <<>>
    /\ v_calls = 0

ParkSave ==
    /\ c_th = <<>>
    /\ c_lock = "free"
    /\ c_table0 = <<>>

ParkMem ==
    /\ m_table = <<>>
    /\ m_now = 0
    /\ m_call = <<>>
    /\ m_saves = 0

ParkRetry ==
    /\ t_op = "none"
    /\ t_pc = "idle"
    /\ t_attempts = 0
    /\ t_excs = <<>>
    /\ t_outcome = "none"
    /\ t_slept = 0
    /\ t_calls = 0

ParkTools ==
    /\ x_policy = <<>>
    /\ x_step = <<>>
    /\ x_pc = "new"
    /\ x_parts = <<>>
    /\ x_act = <<>>
    /\ x_used = <<>>
    /\ x_page_ops = <<>>
    /\ x_result = <<>>

ParkSan ==
    /\ z_in = <<>>
    /\ z_done = FALSE
    /\ z_out = <<>>

ParkStep ==
    /\ e_pc = "idle"
    /\ e_idx = 0
    /\ e_cur = <<>>
    /\ e_exec = <<>>
    /\ e_observations = <<>>
    /\ e_steps = <<>>
    /\ e_verdicts = <<>>
    /\ e_replans = <<>>

ParkFill ==
    /\ f_pc = "idle"
    /\ f_text = <<>>
    /\ f_stage = 1
    /\ f_i = 0
    /\ f_attempt = 0
    /\ f_fills = <<>>
    /\ f_outcome = "none"
    /\ f_calls = 0

ParkRace ==
    /\ q_limit = 0
    /\ q_buckets = <<>>
    /\ q_tokens = <<>>
    /\ q_th = <<>>

ParkStore ==
    /\ k_hash = <<>>
    /\ k_docs = <<>>
    /\ k_call = <<>>

ParkLoose ==
    /\ l_step = <<>>
    /\ l_done = FALSE
    /\ l_result = <<>>

ParkMgr ==
    /\ w_clock = 0
    /\ w_running = FALSE
    /\ w_stop_event = <<>>
    /\ w_last_result = <<>>
    /\ w_callers = <<>>
    /\ w_runs = <<>>

ParkSess ==
    /\ h_playwright = FALSE
    /\ h_browser = <<>>
    /\ h_context = <<>>
    /\ h_page = FALSE
    /\ h_live = {}
    /\ h_cfg = <<>>
    /\ h_op = "none"
    /\ h_args = <<>>
    /\ h_before = <<>>
    /\ h_raised = FALSE
    /\ h_calls = 0

ParkRest ==
    /\ ParkBucket
    /\ ParkSel
    /\ ParkResolve
    /\ ParkSave
    /\ ParkMem
    /\ ParkRetry
    /\ ParkTools
    /\ ParkSan
    /\ ParkStep
    /\ ParkFill
    /\ ParkRace
    /\ ParkStore
    /\ ParkLoose
    /\ ParkMgr
    /\ ParkSess

(***************************************************************************)
(* Strings                                                                 *)
(***************************************************************************)
\* str.endswith
EndsWith(s, d) ==
    /\ Len(d) <= Len(s)
    /\ SubSeq(s, Len(s) - Len(d) + 1, Len(s)) = d

\* str.find for a set of characters, at or after position from; 0 when absent
FirstIdx(s, C, from) ==
    IF \E i \in from..Len(s) : s[i] \in C
    THEN CHOOSE i \in from..Len(s) :
            /\ s[i] \in C
            /\ \A j \in from..(i - 1) : s[j] \notin C
    ELSE 0

\* All sequences over S of length 0..n
RECURSIVE SeqsUpTo(_, _)
SeqsUpTo(S, n) ==
    IF n = 0 THEN {<<>>}
    ELSE LET shorter == SeqsUpTo(S, n - 1)
         IN  shorter \cup {Append(s, c) : s \in shorter, c \in S}

(***************************************************************************)
(* urllib.parse.urlparse, as far as scheme and netloc go                   *)
(***************************************************************************)
SchemeChars == {"h", "t", "p", "s", "a", "b", "8", "."}
Letters == {"h", "t", "p", "s", "a", "b"}

\* the scheme and what follows it
UrlScheme(url) ==
    LET i == FirstIdx(url, {":"}, 1)
    IN  IF /\ i > 1
           /\ url[1] \in Letters
           /\ \A j \in 1..(i - 1) : url[j] \in SchemeChars
        THEN [scheme |-> SubSeq(url, 1, i - 1), rest |-> SubSeq(url, i + 1, Len(url))]
        ELSE [scheme |-> <<>>, rest |-> url]

\* urlparse(url).netloc: what stands between "//" and the next of "/", "?", "#"
UrlNetloc(url) ==
    LET rest == UrlScheme(url).rest
    IN  IF Len(rest) >= 2 /\ SubSeq(rest, 1, 2) = <<"/", "/">>
        THEN LET d == FirstIdx(rest, {"/", "?", "#"}, 3)
             IN  IF d = 0 THEN SubSeq(rest, 3, Len(rest))
                 ELSE SubSeq(rest, 3, d - 1)
        ELSE <<>>

\* str.rfind for a set of characters; 0 when absent
LastIdx(s, C) ==
    IF \E i \in 1..Len(s) : s[i] \in C
    THEN CHOOSE i \in 1..Len(s) :
            /\ s[i] \in C
            /\ \A j \in (i + 1)..Len(s) : s[j] \notin C
    ELSE 0

\* urlparse(url).hostname: the netloc after its user info and up to its port
UrlHostname(url) ==
    LET n == UrlNetloc(url)
        a == LastIdx(n, {"@"})
        hostinfo == SubSeq(n, a + 1, Len(n))
        c == FirstIdx(hostinfo, {":"}, 1)
    IN  IF c = 0 THEN hostinfo ELSE SubSeq(hostinfo, 1, c - 1)

(***************************************************************************)
(* SecurityManager.is_domain_allowed                                       *)
(***************************************************************************)
\* a plausible slip: the allowlist is ignored when it is empty
is_domain_allowed_OpenWhenEmpty(allowed_domains, url) ==
    \/ allowed_domains = {}
    \/ \E d \in allowed_domains : EndsWith(UrlNetloc(url), d)

is_domain_allowed(allowed_domains, url) ==
    LET host == UrlNetloc(url)
    IN  \E d \in allowed_domains : EndsWith(host, d)

(***************************************************************************)
(* Inputs of the security gate                                             *)
(***************************************************************************)
MaxHostLen == 3
HostChars == {"a", "b", "."}
Hosts == SeqsUpTo(HostChars, MaxHostLen) \ {<<>>}
Http == <<"h", "t", "t", "p">>
Https == <<"h", "t", "t", "p", "s">>
Ports == {<<>>, <<":", "8">>}
Paths == {<<>>, <<"/", "a">>, <<"?", "b">>}
MkUrl(scheme, host, port, path) == scheme \o <<":", "/", "/">> \o host \o port \o path
Urls == {MkUrl(s, h, p, q) : s \in {Http, Https}, h \in Hosts, p \in Ports, q \in Paths}
AllowEntries == {<<"b">>, <<"a", ".", "b">>, <<"a">>}
AllowLists == SUBSET AllowEntries

(***************************************************************************)
(* TokenBucket.  Time is counted in ticks of half a second (the shortest   *)
(* backoff wait) and tokens in units of 1/UnitsPerToken, so that the       *)
(* refill elapsed * capacity / 60 is a whole number of units.              *)
(***************************************************************************)
TicksPerSecond == 2
SecondsPerMinute == 60
UnitsPerToken == SecondsPerMinute * TicksPerSecond

Min(x, y) == IF x <= y THEN x ELSE y
Max(x, y) == IF x >= y THEN x ELSE y

\* TokenBucket.__init__; refill_rate is capacity / 60 per second, that is
\* capacity units per tick
TokenBucket(capacity, now) ==
    [capacity |-> capacity * UnitsPerToken,
     tokens |-> capacity * UnitsPerToken,
     refill_rate |-> capacity,
     last_refill |-> now]

\* a plausible variant: the refill is added without the cap
Refilled_Uncapped(b, now) ==
    LET elapsed == now - b.last_refill
        refill == elapsed * b.refill_rate
    IN  IF refill > 0
        THEN [b EXCEPT !.tokens = b.tokens + refill, !.last_refill = now]
        ELSE b

\* TokenBucket.consume, the lazy refill
Refilled(b, now) ==
    LET elapsed == now - b.last_refill
        refill == elapsed * b.refill_rate
    IN  IF refill > 0
        THEN [b EXCEPT !.tokens = Min(b.capacity, b.tokens + refill),
                       !.last_refill = now]
        ELSE b

\* a plausible variant: the tokens are taken whether or not they are there
Consume_DeductsAlways(b, tokens, now) ==
    LET r == Refilled(b, now)
    IN  [ok |-> r.tokens >= tokens * UnitsPerToken,
         bucket |-> [r EXCEPT !.tokens = r.tokens - tokens * UnitsPerToken]]

\* TokenBucket.consume: the result and the bucket after the call
Consume(b, tokens, now) ==
    LET r == Refilled(b, now)
    IN  IF r.tokens >= tokens * UnitsPerToken
        THEN [ok |-> TRUE, bucket |-> [r EXCEPT !.tokens = r.tokens - tokens * UnitsPerToken]]
        ELSE [ok |-> FALSE, bucket |-> r]

\* the origin f"{p.scheme}://{p.netloc}"
UrlOrigin(url) == UrlScheme(url).scheme \o <<":", "/", "/">> \o UrlNetloc(url)

\* SecurityManager._bucket_for: the buckets after the lookup
BucketFor(buckets, origin, rate_limit_per_min, now) ==
    IF origin \in DOMAIN buckets THEN buckets
    ELSE [o \in DOMAIN buckets \cup {origin} |->
            IF o = origin THEN TokenBucket(Max(1, rate_limit_per_min), now)
            ELSE buckets[o]]

\* SecurityManager.enforce_rate_limit: the result and the buckets after the call
EnforceRateLimit(buckets, url, rate_limit_per_min, now) ==
    LET origin == UrlOrigin(url)
        bs == BucketFor(buckets, origin, rate_limit_per_min, now)
        c == Consume(bs[origin], 1, now)
    IN  [ok |-> c.ok, buckets |-> [bs EXCEPT ![origin] = c.bucket]]

(***************************************************************************)
(* WebNavigator.goto under tenacity's retry                                *)
(***************************************************************************)
MaxAttempts == 3
BackoffMaxTicks == 8

RECURSIVE Pow2(_)
Pow2(k) == IF k = 0 THEN 1 ELSE 2 * Pow2(k - 1)

\* wait_exponential(multiplier=0.5, min=0.5, max=4) after attempt k, in ticks
BackoffTicks(k) == Max(1, Min(Pow2(k - 1), BackoffMaxTicks))

\* a plausible variant: policy errors are not retried
RetryStops_PolicyFinal(attempt, exc) ==
    attempt >= MaxAttempts \/ exc \in {"PermissionError", "RuntimeError"}

\* stop_after_attempt(3) with the default retry on every exception
RetryStops(attempt, exc) == attempt >= MaxAttempts

MaxTime == 66
MaxCalls == 3
AdvanceSteps == {60}
RateLimits == {0, 2}
NavAllowLists == {{}, {<<"b">>}, {<<"a", ".", "b">>}}
RunArgs == {NoneArg} \cup {[none |-> FALSE, domains |-> l] : l \in NavAllowLists}
NavUrls == {MkUrl(Https, <<"a", ".", "b">>, <<>>, <<>>),
            MkUrl(Https, <<"a", ".", "b">>, <<>>, <<"/", "a">>),
            MkUrl(Http, <<"a", "b">>, <<>>, <<>>),
            MkUrl(Https, <<"a", "@", "a", ".", "b">>, <<>>, <<>>)}

\* the truth value of a list argument: None and [] are false
Truthy(arg) == ~arg.none /\ arg.domains # {}

\* a plausible slip: "is not None" instead of the truth value
RunAllowlist_IsNotNone(settings_allowed, arg) ==
    IF ~arg.none THEN arg.domains ELSE settings_allowed

\* MultiAgentRunner.run: the allowlist of the run's navigator
RunAllowlist(settings_allowed, arg) ==
    IF Truthy(arg) THEN arg.domains ELSE settings_allowed

\* a navigator as MultiAgentRunner.run sets it up
InitNav ==
    /\ ParkRun
    /\ ParkDirect
    /\ ParkRest
    /\ ParkAllow
    /\ ParkPool
    /\ n_settings \in NavAllowLists
    /\ n_rate_limit \in RateLimits
    /\ n_run_arg \in RunArgs
    /\ n_allowed = RunAllowlist(n_settings, n_run_arg)
    /\ n_buckets = <<>>
    /\ n_now = 0
    /\ n_pc = "idle"
    /\ n_url = <<>>
    /\ n_attempt = 0
    /\ n_exc = "none"
    /\ n_gate_evals = 0
    /\ n_rate_evals = 0
    /\ n_waits = 0
    /\ n_navs = 0
    /\ n_outcome = "none"
    /\ n_calls = 0
    /\ n_via = "none"
    /\ n_navigated = {}

\* time passes
Advance(d) ==
    /\ n_now + d <= MaxTime
    /\ n_now' = n_now + d
    /\ UNCHANGED <<n_via, n_settings, n_rate_limit, n_run_arg, n_allowed, n_buckets, n_pc, n_url,
                   n_attempt, n_exc, n_gate_evals, n_rate_evals, n_waits, n_navs,
                   n_outcome, n_calls, n_navigated>>

\* a caller enters goto(url), directly or from open_new_tab after
\* context.new_page() gave it a fresh page
GotoCall(url, via) ==
    /\ n_pc = "idle"
    /\ n_via' = via
    /\ n_calls < MaxCalls
    /\ n_calls' = n_calls + 1
    /\ n_now + BackoffTicks(1) + BackoffTicks(2) <= MaxTime
    /\ n_pc' = "try"
    /\ n_url' = url
    /\ n_attempt' = 1
    /\ n_exc' = "none"
    /\ n_gate_evals' = 0
    /\ n_rate_evals' = 0
    /\ n_waits' = 0
    /\ n_navs' = 0
    /\ n_outcome' = "none"
    /\ UNCHANGED <<n_settings, n_rate_limit, n_run_arg, n_allowed, n_buckets, n_now,
                   n_navigated>>

\* what tenacity does with an attempt that raised exc
AttemptFailed(exc) ==
    /\ n_exc' = exc
    /\ IF RetryStops(n_attempt, exc)
       THEN n_pc' = "idle" /\ n_outcome' = exc
       ELSE n_pc' = "backoff" /\ n_outcome' = "none"

\* a plausible variant: the rate limit is asked before the allowlist
SecurityGate_RateFirst(allowed, buckets, url, rate_limit_per_min, now) ==
    LET r == EnforceRateLimit(buckets, url, rate_limit_per_min, now)
    IN  [verdict |-> IF ~r.ok THEN "RuntimeError"
                     ELSE IF ~is_domain_allowed(allowed, url) THEN "PermissionError"
                     ELSE "ok",
         buckets |-> r.buckets, rate_evals |-> 1]

\* the two checks at the head of goto's body: what they raise or "ok", the buckets
\* after them, and how often enforce_rate_limit was called
SecurityGate(allowed, buckets, url, rate_limit_per_min, now) ==
    IF ~is_domain_allowed(allowed, url)
    THEN [verdict |-> "PermissionError", buckets |-> buckets, rate_evals |-> 0]
    ELSE LET r == EnforceRateLimit(buckets, url, rate_limit_per_min, now)
         IN  [verdict |-> IF r.ok THEN "ok" ELSE "RuntimeError",
              buckets |-> r.buckets, rate_evals |-> 1]

\* one attempt of the body of goto; page_ok is whether page.goto returns
GotoAttempt(page_ok) ==
    /\ n_pc = "try"
    /\ n_gate_evals' = n_gate_evals + 1
    /\ LET g == SecurityGate(n_allowed, n_buckets, n_url, n_rate_limit, n_now)
       IN  /\ n_buckets' = g.buckets
           /\ n_rate_evals' = n_rate_evals + g.rate_evals
           /\ IF g.verdict # "ok"
              THEN /\ AttemptFailed(g.verdict)
                   /\ UNCHANGED <<n_navs, n_navigated>>
              ELSE /\ n_navs' = n_navs + 1
                   /\ n_navigated' = n_navigated \cup {n_url}
                   /\ IF page_ok
                      THEN n_pc' = "idle" /\ n_outcome' = "ok" /\ n_exc' = "none"
                      ELSE AttemptFailed("TimeoutError")
    /\ UNCHANGED <<n_via, n_settings, n_rate_limit, n_run_arg, n_allowed, n_now, n_url, n_attempt,
                   n_waits, n_calls>>

\* tenacity sleeps, then the next attempt is due
GotoBackoff ==
    /\ n_pc = "backoff"
    /\ n_now' = n_now + BackoffTicks(n_attempt)
    /\ n_waits' = n_waits + 1
    /\ n_attempt' = n_attempt + 1
    /\ n_pc' = "try"
    /\ UNCHANGED <<n_via, n_settings, n_rate_limit, n_run_arg, n_allowed, n_buckets, n_url, n_exc,
                   n_gate_evals, n_rate_evals, n_navs, n_outcome, n_calls, n_navigated>>

NextNav ==
    \/ \E d \in AdvanceSteps : Advance(d) /\ UNCHANGED <<allowVars, poolVars, runVars, directVars, restVars>>
    \/ \E url \in NavUrls, via \in {"goto", "open_new_tab"} :
            GotoCall(url, via) /\ UNCHANGED <<allowVars, poolVars, runVars, directVars, restVars>>
    \/ \E page_ok \in BOOLEAN : GotoAttempt(page_ok) /\ UNCHANGED <<allowVars, poolVars, runVars, directVars, restVars>>
    \/ GotoBackoff /\ UNCHANGED <<allowVars, poolVars, runVars, directVars, restVars>>

SpecNav == InitNav /\ [][NextNav]_vars

\* C2: with an empty allowlist every goto raises the policy error and no page
\* navigation is performed; a run given allowed_domains None or [] under an empty
\* configured allowlist has the empty allowlist.
C2_EmptyAllowlistDeniesAll ==
    /\ (n_settings = {} /\ (n_run_arg.none \/ n_run_arg.domains = {})) => n_allowed = {}
    /\ n_allowed = {} =>
        /\ n_navigated = {}
        /\ n_navs = 0
        /\ n_rate_evals = 0
        /\ (n_pc = "idle" /\ n_attempt > 0) => n_outcome = "PermissionError"

C2_Witness ==
    /\ n_settings = {}
    /\ ~n_run_arg.none /\ n_run_arg.domains = {}
    /\ n_pc = "idle"
    /\ n_outcome = "PermissionError"

\* C3: a navigation rejected by the security gate is not retried: the gate is
\* evaluated once, and no backoff wait precedes the failure.
C3_GateRejectionNotRetried ==
    (n_pc = "idle" /\ n_outcome \in {"PermissionError", "RuntimeError"}) =>
        /\ n_gate_evals = 1
        /\ n_waits = 0

\* C17: enforce_rate_limit is keyed by scheme://host: URLs with the same scheme and
\* host draw from one bucket, so no two buckets stand for one scheme and host.
C17_OneBucketPerSchemeAndHost ==
    \A o1, o2 \in DOMAIN n_buckets :
        (UrlScheme(o1).scheme = UrlScheme(o2).scheme /\ UrlHostname(o1) = UrlHostname(o2))
            => o1 = o2

\* the rest of C17: every attempt the gate lets through, a retry included, takes
\* exactly one token from the bucket of its origin and from no other bucket, and
\* an attempt that finds the bucket exhausted takes none
RateLimitPerAttempt ==
    [][n_rate_evals' = n_rate_evals + 1 =>
        LET o == UrlOrigin(n_url)
            before == IF o \in DOMAIN n_buckets THEN n_buckets[o]
                      ELSE TokenBucket(Max(1, n_rate_limit), n_now)
            avail == Min(before.capacity,
                         before.tokens + Max(0, n_now - before.last_refill) * before.refill_rate)
        IN  /\ DOMAIN n_buckets' = DOMAIN n_buckets \cup {o}
            /\ \A x \in DOMAIN n_buckets \ {o} : n_buckets'[x] = n_buckets[x]
            /\ n_navs' = n_navs + 1 =>
                    (avail >= UnitsPerToken /\ n_buckets'[o].tokens = avail - UnitsPerToken)
            /\ n_navs' = n_navs =>
                    (avail < UnitsPerToken /\ n_buckets'[o].tokens = avail
                       /\ n_exc' = "RuntimeError")]_vars

\* C28: in every execution of goto, also when reached through open_new_tab, the
\* page navigation happens only after is_domain_allowed(url) and then
\* enforce_rate_limit(url) both returned true in that same attempt; when the
\* allowlist check fails the rate check is not evaluated: no bucket is created and
\* no token is taken for the rejected URL.
C28_NavigationBehindBothChecks ==
    [][LET admitted == \E d \in n_allowed : EndsWith(UrlNetloc(n_url), d)
       IN  /\ n_navs' = n_navs + 1 =>
                /\ admitted
                /\ n_gate_evals' = n_gate_evals + 1
                /\ n_rate_evals' = n_rate_evals + 1
                /\ UrlOrigin(n_url) \in DOMAIN n_buckets'
           /\ (n_gate_evals' = n_gate_evals + 1 /\ ~admitted) =>
                /\ n_buckets' = n_buckets
                /\ n_rate_evals' = n_rate_evals
                /\ n_navs' = n_navs
                /\ n_navigated' = n_navigated
                /\ n_exc' = "PermissionError"]_vars

\* C28: a navigation from open_new_tab that went through on its third attempt, the
\* rate limit having refused the second
C28_Witness ==
    /\ n_via = "open_new_tab"
    /\ n_outcome = "ok"
    /\ n_attempt = 3
    /\ n_gate_evals = 3
    /\ n_rate_evals = 3
    /\ n_navs = 2

(***************************************************************************)
(* BrowserPool.  Slots are counted from 1 (the source counts from 0).  A   *)
(* page is [gen, slot, k]: the k-th page made on browser <<gen, slot>>.    *)
(***************************************************************************)
MaxBrowsers == 2
MaxPagesPerBrowser == 1
\* how many rare events one behaviour has: a start() after a stop(), a temporary
\* page, a release of a handle that was released already
MaxRare == 1
\* t1 calls _acquire and handle.release() itself; t2 works in get_page with-blocks
Threads == {"t1", "t2"}
DirectCallers == {"t1"}
BlockCallers == {"t2"}
\* a thread asks for one handle more than the pool pre-allocates, and no more
MaxHeld == MaxBrowsers * MaxPagesPerBrowser + 1
Timeouts == {"None", "Finite"}

MaxGen == MaxRare + 1
QueueIds == (1..MaxGen) \X (1..MaxBrowsers)
BrowserOf(page) == <<page.gen, page.slot>>

\* a page is closed by page.close() or with its browser
Closed(page) == page \in p_closed_pages \/ BrowserOf(page) \in p_closed_browsers

ThreadIdle ==
    [pc |-> "idle", timeout |-> "None", via |-> "none", i |-> 0, n |-> 0, q |-> <<>>,
     cur |-> <<>>, raised |-> FALSE, held |-> EmptyBag, stale |-> <<>>, exc |-> "none"]

\* BrowserPool.__init__
InitPool ==
    /\ ParkRun
    /\ ParkDirect
    /\ ParkRest
    /\ ParkAllow
    /\ ParkNav
    /\ p_started = FALSE
    /\ p_gen = 0
    /\ p_browsers = <<>>
    /\ p_pages_queues = <<>>
    /\ p_q = [q \in QueueIds |-> <<>>]
    /\ p_lock = "free"
    /\ p_closed_pages = {}
    /\ p_closed_browsers = {}
    /\ p_overflow = 0
    /\ p_discarded = {}
    /\ p_rare = 0
    /\ th = [t \in Threads |-> ThreadIdle]

\* the pages in a sequence of pages
Range(seq) == {seq[k] : k \in 1..Len(seq)}

\* a plausible slip: start() without the _started guard
StartBuilds_Unguarded(started) == TRUE

\* start(): whether the call builds the pool
StartBuilds(started) == ~started

\* the body of start() under the lock, after the guard
StartEffect ==
    LET g == p_gen + 1
        made == [i \in 1..MaxBrowsers |-> <<g, i>>]
    IN  /\ p_gen > 0 => p_rare < MaxRare
        /\ p_rare' = IF p_gen > 0 THEN p_rare + 1 ELSE p_rare
        /\ p_gen' = g
        /\ p_browsers' = p_browsers \o made
        /\ p_pages_queues' = p_pages_queues \o made
        /\ p_q' = [q \in QueueIds |->
                    IF q[1] = g
                    THEN [k \in 1..MaxPagesPerBrowser |-> [gen |-> g, slot |-> q[2], k |-> k]]
                    ELSE p_q[q]]
        /\ p_started' = TRUE
        /\ p_overflow' = 0

\* BrowserPool.start
StartCall(t) ==
    /\ UNCHANGED p_discarded
    /\ th[t].pc = "idle"
    /\ p_lock = "free"
    /\ IF StartBuilds(p_started)
       THEN StartEffect
       ELSE UNCHANGED <<p_started, p_gen, p_browsers, p_pages_queues, p_q, p_overflow, p_rare>>
    /\ UNCHANGED <<p_lock, p_closed_pages, p_closed_browsers, th>>

\* BrowserPool.stop, up to the end of the drain loop: every queued page is closed
StopCall(t) ==
    /\ UNCHANGED p_discarded
    /\ th[t].pc = "idle"
    /\ p_lock = "free"
    /\ IF ~p_started
       THEN UNCHANGED <<p_q, p_lock, p_closed_pages, th>>
       ELSE /\ p_closed_pages' = p_closed_pages \cup
                UNION {Range(p_q[p_pages_queues[i]]) : i \in 1..Len(p_pages_queues)}
            /\ p_q' = [q \in QueueIds |-> IF q \in Range(p_pages_queues) THEN <<>> ELSE p_q[q]]
            /\ p_lock' = t
            /\ th' = [th EXCEPT ![t].pc = "stopping"]
    /\ UNCHANGED <<p_started, p_gen, p_browsers, p_pages_queues, p_closed_browsers, p_overflow, p_rare>>

\* BrowserPool.stop, from closing the browsers to the end
StopFinish(t) ==
    /\ UNCHANGED p_discarded
    /\ th[t].pc = "stopping"
    /\ p_closed_browsers' = p_closed_browsers \cup Range(p_browsers)
    /\ p_browsers' = <<>>
    /\ p_pages_queues' = <<>>
    /\ p_started' = FALSE
    /\ p_lock' = "free"
    /\ th' = [th EXCEPT ![t].pc = "idle"]
    /\ UNCHANGED <<p_gen, p_q, p_closed_pages, p_overflow, p_rare>>

\* a plausible slip: a handle of a missing slot is dropped without closing its page
Release_NoClose(queues, q, closed, handle) ==
    IF handle.browser_idx > Len(queues)
    THEN [q |-> q, closed |-> closed]
    ELSE [q |-> [q EXCEPT ![queues[handle.browser_idx]] = Append(@, handle.page)],
          closed |-> closed]

\* BrowserPool._release: the queue contents and the closed pages after the call.
\* The queues are unbounded (queue.Queue()), so the put never fails.
Release(queues, q, closed, handle) ==
    IF handle.browser_idx > Len(queues)
    THEN [q |-> q, closed |-> closed \cup {handle.page}]
    ELSE [q |-> [q EXCEPT ![queues[handle.browser_idx]] = Append(@, handle.page)],
          closed |-> closed]

ReleaseEffect(handle) ==
    LET r == Release(p_pages_queues, p_q, p_closed_pages, handle)
    IN  /\ p_q' = r.q
        /\ p_closed_pages' = r.closed
        /\ p_discarded' = p_discarded \cup (IF r.q = p_q THEN {handle.page} ELSE {})

\* _acquire or get_page is entered: "if not self._started: self.start()"
AcquireCall(t, timeout, via) ==
    /\ UNCHANGED p_discarded
    /\ th[t].pc = "idle"
    /\ via = "_acquire" => (t \in DirectCallers /\ BagCardinality(th[t].held) < MaxHeld)
    /\ via = "get_page" => t \in BlockCallers
    /\ IF p_started
       THEN UNCHANGED <<p_started, p_gen, p_browsers, p_pages_queues, p_q, p_overflow, p_rare>>
       ELSE /\ p_lock = "free"
            /\ StartEffect
    /\ th' = [th EXCEPT ![t].pc = "len", ![t].timeout = timeout, ![t].via = via,
                        ![t].cur = <<>>]
    /\ UNCHANGED <<p_lock, p_closed_pages, p_closed_browsers>>

\* n = len(self._pages_queues)
AcqLen(t) ==
    /\ UNCHANGED p_discarded
    /\ th[t].pc = "len"
    /\ th' = [th EXCEPT ![t].pc = "scan", ![t].n = Len(p_pages_queues), ![t].i = 1]
    /\ UNCHANGED <<p_started, p_gen, p_browsers, p_pages_queues, p_q, p_lock, p_closed_pages,
                   p_closed_browsers, p_overflow, p_rare>>

\* the call returns handle: to the with-block of get_page, or to the caller
Returned(t, handle) ==
    IF th[t].via = "get_page"
    THEN [th EXCEPT ![t].pc = "body", ![t].cur = <<handle>>,
                    ![t].timeout = "None", ![t].i = 0, ![t].n = 0, ![t].q = <<>>]
    ELSE [th EXCEPT ![t].pc = "idle", ![t].held = @ (+) SetToBag({handle}),
                    ![t].timeout = "None", ![t].via = "none", ![t].i = 0, ![t].n = 0,
                    ![t].q = <<>>]

\* the call raises exc
Raised(t, exc) ==
    [th EXCEPT ![t].pc = "raised", ![t].exc = exc,
               ![t].timeout = "None", ![t].via = "none", ![t].i = 0, ![t].n = 0, ![t].q = <<>>]

\* the head of the loop: q = self._pages_queues[idx], or the loop is over
AcqScan(t) ==
    /\ UNCHANGED p_discarded
    /\ th[t].pc = "scan"
    /\ th' = IF th[t].i > th[t].n THEN [th EXCEPT ![t].pc = "overflow"]
             ELSE IF th[t].i > Len(p_pages_queues) THEN Raised(t, "IndexError")
             ELSE [th EXCEPT ![t].pc = "get", ![t].q = <<p_pages_queues[th[t].i]>>]
    /\ UNCHANGED <<p_started, p_gen, p_browsers, p_pages_queues, p_q, p_lock, p_closed_pages,
                   p_closed_browsers, p_overflow, p_rare>>

\* q.get(timeout=timeout) returns a page
AcqGet(t) ==
    /\ UNCHANGED p_discarded
    /\ th[t].pc = "get"
    /\ p_q[th[t].q[1]] # <<>>
    /\ p_q' = [p_q EXCEPT ![th[t].q[1]] = Tail(@)]
    /\ th' = Returned(t, [page |-> Head(p_q[th[t].q[1]]), browser_idx |-> th[t].i])
    /\ UNCHANGED <<p_started, p_gen, p_browsers, p_pages_queues, p_lock, p_closed_pages,
                   p_closed_browsers, p_overflow, p_rare>>

\* q.get(timeout=timeout) raises queue.Empty only when a timeout was given
GetTimesOut(timeout) == timeout # "None"

\* q.get(timeout=timeout) raises queue.Empty: on to the next slot
AcqEmpty(t) ==
    /\ UNCHANGED p_discarded
    /\ th[t].pc = "get"
    /\ p_q[th[t].q[1]] = <<>>
    /\ GetTimesOut(th[t].timeout)
    /\ th' = [th EXCEPT ![t].pc = "scan", ![t].i = @ + 1, ![t].q = <<>>]
    /\ UNCHANGED <<p_started, p_gen, p_browsers, p_pages_queues, p_q, p_lock, p_closed_pages,
                   p_closed_browsers, p_overflow, p_rare>>

\* no queue gave a page: a temporary page on the first browser, under the lock
AcqOverflow(t) ==
    /\ UNCHANGED p_discarded
    /\ th[t].pc = "overflow"
    /\ p_lock = "free"
    /\ p_browsers # <<>>
    /\ p_rare < MaxRare
    /\ p_rare' = p_rare + 1
    /\ p_overflow' = p_overflow + 1
    /\ th' = Returned(t, [page |-> [gen |-> p_browsers[1][1], slot |-> p_browsers[1][2],
                                    k |-> MaxPagesPerBrowser + p_overflow + 1],
                          browser_idx |-> 1])
    /\ UNCHANGED <<p_started, p_gen, p_browsers, p_pages_queues, p_q, p_lock, p_closed_pages,
                   p_closed_browsers>>

\* no queue gave a page and there is no browser: RuntimeError
AcqNoBrowsers(t) ==
    /\ UNCHANGED p_discarded
    /\ th[t].pc = "overflow"
    /\ p_lock = "free"
    /\ p_browsers = <<>>
    /\ th' = Raised(t, "RuntimeError")
    /\ UNCHANGED <<p_started, p_gen, p_browsers, p_pages_queues, p_q, p_lock, p_closed_pages,
                   p_closed_browsers, p_overflow, p_rare>>

\* the body of the with-block of get_page returns or raises
BodyEnds(t, raised) ==
    /\ UNCHANGED p_discarded
    /\ th[t].pc = "body"
    /\ th' = [th EXCEPT ![t].pc = "finally", ![t].raised = raised]
    /\ UNCHANGED <<p_started, p_gen, p_browsers, p_pages_queues, p_q, p_lock, p_closed_pages,
                   p_closed_browsers, p_overflow, p_rare>>

\* a plausible slip: the release after the yield, without try/finally
ReleasesOnExit_NoFinally(raised) == ~raised

\* get_page releases in a finally clause
ReleasesOnExit(raised) == TRUE

\* the finally clause of get_page; cur is the lease until it is released
GetPageFinally(t) ==
    /\ th[t].pc = "finally"
    /\ IF ReleasesOnExit(th[t].raised)
       THEN /\ ReleaseEffect(th[t].cur[1])
            /\ th' = [th EXCEPT ![t].pc = IF th[t].raised THEN "raised" ELSE "idle",
                                ![t].exc = IF th[t].raised THEN "BodyError" ELSE "none",
                                ![t].cur = <<>>, ![t].via = "none", ![t].raised = FALSE]
       ELSE /\ UNCHANGED <<p_q, p_closed_pages, p_discarded>>
            /\ th' = [th EXCEPT ![t].pc = IF th[t].raised THEN "raised" ELSE "idle",
                                ![t].exc = IF th[t].raised THEN "BodyError" ELSE "none",
                                ![t].via = "none", ![t].raised = FALSE]
    /\ UNCHANGED <<p_started, p_gen, p_browsers, p_pages_queues, p_lock, p_closed_browsers,
                   p_overflow, p_rare>>

\* handle.release() on a handle got from _acquire; the caller may keep the handle
ReleaseCall(t, handle, keep) ==
    /\ th[t].pc = "idle"
    /\ BagIn(handle, th[t].held)
    /\ keep => /\ \A u \in Threads : th[u].stale = <<>>
               /\ p_rare < MaxRare
    /\ ReleaseEffect(handle)
    /\ th' = [th EXCEPT ![t].held = @ (-) SetToBag({handle}),
                        ![t].stale = IF keep THEN <<handle>> ELSE @]
    /\ UNCHANGED <<p_started, p_gen, p_browsers, p_pages_queues, p_lock, p_closed_browsers,
                   p_overflow, p_rare>>

\* handle.release() once more on a handle that was released already
ReleaseAgain(t) ==
    /\ th[t].pc = "idle"
    /\ th[t].stale # <<>>
    /\ p_rare < MaxRare
    /\ p_rare' = p_rare + 1
    /\ ReleaseEffect(th[t].stale[1])
    /\ th' = [th EXCEPT ![t].stale = <<>>]
    /\ UNCHANGED <<p_started, p_gen, p_browsers, p_pages_queues, p_lock, p_closed_browsers,
                   p_overflow>>

\* the exception of a call has reached the caller
Unwind(t) ==
    /\ UNCHANGED p_discarded
    /\ th[t].pc = "raised"
    /\ th' = [th EXCEPT ![t].pc = "idle", ![t].exc = "none"]
    /\ UNCHANGED <<p_started, p_gen, p_browsers, p_pages_queues, p_q, p_lock, p_closed_pages,
                   p_closed_browsers, p_overflow, p_rare>>

NextPool ==
    \/ \E t \in Threads : StartCall(t) /\ UNCHANGED <<allowVars, navVars, runVars, directVars, restVars>>
    \/ \E t \in Threads : StopCall(t) /\ UNCHANGED <<allowVars, navVars, runVars, directVars, restVars>>
    \/ \E t \in Threads : StopFinish(t) /\ UNCHANGED <<allowVars, navVars, runVars, directVars, restVars>>
    \/ \E t \in Threads, timeout \in Timeouts, via \in {"_acquire", "get_page"} :
            AcquireCall(t, timeout, via) /\ UNCHANGED <<allowVars, navVars, runVars, directVars, restVars>>
    \/ \E t \in Threads : AcqLen(t) /\ UNCHANGED <<allowVars, navVars, runVars, directVars, restVars>>
    \/ \E t \in Threads : AcqScan(t) /\ UNCHANGED <<allowVars, navVars, runVars, directVars, restVars>>
    \/ \E t \in Threads : AcqGet(t) /\ UNCHANGED <<allowVars, navVars, runVars, directVars, restVars>>
    \/ \E t \in Threads : AcqEmpty(t) /\ UNCHANGED <<allowVars, navVars, runVars, directVars, restVars>>
    \/ \E t \in Threads : AcqOverflow(t) /\ UNCHANGED <<allowVars, navVars, runVars, directVars, restVars>>
    \/ \E t \in Threads : AcqNoBrowsers(t) /\ UNCHANGED <<allowVars, navVars, runVars, directVars, restVars>>
    \/ \E t \in Threads, raised \in BOOLEAN : BodyEnds(t, raised) /\ UNCHANGED <<allowVars, navVars, runVars, directVars, restVars>>
    \/ \E t \in Threads : GetPageFinally(t) /\ UNCHANGED <<allowVars, navVars, runVars, directVars, restVars>>
    \/ \E t \in Threads, keep \in BOOLEAN : \E handle \in BagToSet(th[t].held) :
            ReleaseCall(t, handle, keep) /\ UNCHANGED <<allowVars, navVars, runVars, directVars, restVars>>
    \/ \E t \in Threads : ReleaseAgain(t) /\ UNCHANGED <<allowVars, navVars, runVars, directVars, restVars>>
    \/ \E t \in Threads : Unwind(t) /\ UNCHANGED <<allowVars, navVars, runVars, directVars, restVars>>

SpecPool == InitPool /\ [][NextPool]_vars

RECURSIVE SumOver(_, _)
SumOver(f, S) ==
    IF S = {} THEN 0
    ELSE LET x == CHOOSE y \in S : TRUE IN f[x] + SumOver(f, S \ {x})

\* how many outstanding leases hold page: handles got from _acquire and not yet
\* released, and the handle of a with-block that has not released it
LeasesOf(page) ==
    SumOver([t \in Threads |->
                SumOver([h \in BagToSet(th[t].held) |->
                            IF h.page = page THEN CopiesIn(h, th[t].held) ELSE 0],
                        BagToSet(th[t].held))
                + (IF th[t].cur # <<>> /\ th[t].cur[1].page = page THEN 1 ELSE 0)],
            Threads)

\* how many times page stands in the queues of the pool
QueuedCopies(page) ==
    SumOver([i \in 1..Len(p_pages_queues) |->
                Cardinality({k \in 1..Len(p_q[p_pages_queues[i]]) :
                                p_q[p_pages_queues[i]][k] = page})],
            1..Len(p_pages_queues))

PagesInUse ==
    UNION {Range(p_q[p_pages_queues[i]]) : i \in 1..Len(p_pages_queues)}
    \cup UNION {{h.page : h \in BagToSet(th[t].held)} : t \in Threads}
    \cup UNION {{th[t].cur[k].page : k \in 1..Len(th[t].cur)} : t \in Threads}

\* C4: every pooled page has at most one live owner: it is not held by two
\* outstanding leases, not both leased and queued, and not queued twice, also
\* when release is called more than once on one PageHandle.
C4_SingleLiveOwner ==
    \A page \in PagesInUse : LeasesOf(page) + QueuedCopies(page) <= 1

\* the pool is started, nobody is stopping it, and every page it pre-allocated
\* is leased, so that its queues are empty
AllLeased ==
    /\ p_started
    /\ p_lock = "free"
    /\ p_browsers # <<>>
    /\ \A i \in 1..Len(p_pages_queues) :
            /\ p_q[p_pages_queues[i]] = <<>>
            /\ \A k \in 1..MaxPagesPerBrowser :
                    LeasesOf([gen |-> p_gen, slot |-> i, k |-> k]) = 1

\* C5: in a started pool with a browser, an acquire that finds every
\* pre-allocated page leased does not block on a queue: it goes on to the
\* overflow handle, whatever timeout it was called with.
C5_OverflowInsteadOfBlocking ==
    \A t \in Threads :
        (th[t].pc = "get" /\ AllLeased /\ th[t].q[1] \in Range(p_pages_queues))
            => ENABLED (AcqGet(t) \/ AcqEmpty(t))

\* C6: a get_page cycle leaves no lease behind: when the with-block is over,
\* raised or not, its handle was released once, and the release put the page
\* on a slot queue or closed it.
C6_GetPageLeavesNoLease ==
    /\ [](\A t \in BlockCallers : th[t].pc \in {"idle", "raised"} => th[t].cur = <<>>)
    /\ [][\A t \in BlockCallers :
            (th[t].pc = "finally" /\ th'[t].pc # "finally") =>
                LET h == th[t].cur[1]
                IN  \/ /\ h.browser_idx <= Len(p_pages_queues)
                       /\ p_q' = [p_q EXCEPT ![p_pages_queues[h.browser_idx]] =
                                                Append(@, h.page)]
                    \/ /\ h.browser_idx > Len(p_pages_queues)
                       /\ p_q' = p_q
                       /\ h.page \in p_closed_pages']_vars

\* a with-block whose body raised is over, and its handle is back on a queue
C6_Witness ==
    \E t \in BlockCallers :
        /\ th[t].pc = "raised"
        /\ th[t].exc = "BodyError"
        /\ th[t].cur = <<>>
        /\ \E i \in 1..Len(p_pages_queues) : p_q[p_pages_queues[i]] # <<>>

HandlesOf(t) == BagToSet(th[t].held) \cup Range(th[t].cur) \cup Range(th[t].stale)

\* the step is a release of handle h by thread t
IsReleaseStep(t, h) ==
    \/ /\ th[t].pc = "finally"
       /\ th[t].cur = <<h>>
       /\ th'[t].cur = <<>>
    \/ /\ th[t].pc = "idle"
       /\ BagIn(h, th[t].held)
       /\ th'[t].held = th[t].held (-) SetToBag({h})
    \/ /\ th[t].pc = "idle"
       /\ th[t].stale = <<h>>
       /\ th'[t].stale = <<>>
       /\ th'[t].held = th[t].held

C30_QueueNeverAboveSlotSize ==
    \A i \in 1..Len(p_pages_queues) : Len(p_q[p_pages_queues[i]]) <= MaxPagesPerBrowser

\* C40: every handle held in a slot queue of the pool was made by the current
\* start() and belongs to a browser that is open: a handle acquired before stop()
\* and released after a later start() is closed and not enqueued, so no queue of
\* the restarted pool holds a page of a browser that stop() closed.
C40_QueuedHandlesAreCurrentAndLive ==
    \A i \in 1..Len(p_pages_queues) :
        \A page \in Range(p_q[p_pages_queues[i]]) :
            /\ page.gen = p_gen
            /\ BrowserOf(page) \notin p_closed_browsers

(***************************************************************************)
(* RunManager and MultiAgentRunner.run.  A plan is a list of steps; what   *)
(* the planner answers is any such list that is not empty.                 *)
(***************************************************************************)
MaxPlanLen == 2
MaxRuns == 2
Steps == {"s1", "s2"}
\* LLMOrchestrator.plan answers the parsed steps, or four default steps when
\* there are none: never an empty list
Plans == SeqsUpTo(Steps, MaxPlanLen) \ {<<>>}

\* page.content() of the snapshot: the length of the html
SnapshotMaxLen == 50000
DomLimit == 2000
HtmlLens == {0, DomLimit - 1, DomLimit + 1, SnapshotMaxLen + 1}

\* WebNavigator.snapshot_dom: html[:max_len], as a length
snapshot_dom(html_len) == Min(html_len, SnapshotMaxLen)

\* a plausible slip: the snapshot goes into the observation whole
FailureObservation_Whole(html_len) ==
    [kind |-> "Error", dom |-> snapshot_dom(html_len)]

\* f'Error: {e}\nDOM: {dom[:2000]}': the message of the exception and the
\* snapshot cut to 2000 characters (as a length)
FailureObservation(html_len) ==
    [kind |-> "Error", dom |-> Min(snapshot_dom(html_len), DomLimit)]

SummaryTail == 5

\* a plausible slip: the first observations instead of the last
LastObservations_First(observations) ==
    SubSeq(observations, 1, Min(SummaryTail, Len(observations)))

\* observations[-5:]
LastObservations(observations) ==
    SubSeq(observations, Max(1, Len(observations) - SummaryTail + 1), Len(observations))

\* a plausible slip: after a re-plan the loop starts over on the new plan
LoopAfterReplan_Restart(iter, pos, repl) == [iter |-> repl, pos |-> 0]

\* "plan = repl; continue": the for statement goes on with the enumerate object
\* it made from the first list
LoopAfterReplan(iter, pos, repl) == [iter |-> iter, pos |-> pos]

InitRun ==
    /\ ParkAllow
    /\ ParkNav
    /\ ParkPool
    /\ ParkRun
    /\ ParkDirect
    /\ ParkRest

\* RunManager.start: refused while a run is in progress; else the flag is
\* cleared and the run's thread is started
RunManagerStart ==
    /\ IF rm_running
       THEN UNCHANGED <<rm_running, rm_stop_event, rm_starts, r_pc>>
       ELSE /\ rm_starts < MaxRuns
            /\ rm_starts' = rm_starts + 1
            /\ rm_stop_event' = FALSE
            /\ rm_running' = TRUE
            /\ r_pc' = "spawned"
    /\ UNCHANGED <<rm_last_result, r_plan, r_iter, r_pos, r_observations, r_dispatched,
                   r_replanned, r_nav_started, r_result, r_replans, r_failure, r_artifacts>>

\* RunManager.stop
RunManagerStop ==
    /\ rm_stop_event' = IF rm_running THEN TRUE ELSE rm_stop_event
    /\ UNCHANGED <<rm_running, rm_last_result, rm_starts, r_pc, r_plan, r_iter, r_pos,
                   r_observations, r_dispatched, r_replanned, r_nav_started, r_result,
                   r_replans, r_failure, r_artifacts>>

\* a plausible slip: the loop never looks at the stop signal
should_stop_Never(stop_event) == FALSE

\* RunManager.should_stop
should_stop(stop_event) == stop_event

\* MultiAgentRunner.run up to the loop: the first plan, the navigator
RunBegin(plan) ==
    /\ r_pc = "spawned"
    /\ r_plan' = plan
    /\ r_iter' = plan
    /\ r_pos' = 0
    /\ r_observations' = <<>>
    /\ r_dispatched' = <<>>
    /\ r_replanned' = FALSE
    /\ r_replans' = 0
    /\ r_failure' = <<>>
    /\ r_artifacts' = <<>>
    /\ r_nav_started' = TRUE
    /\ r_result' = <<>>
    /\ r_pc' = "head"
    /\ UNCHANGED <<rm_running, rm_stop_event, rm_last_result, rm_starts>>

\* the head of the loop: enumerate(plan) gives the next item of the list it was
\* made from, or the loop is over; then the stop signal is looked at
LoopHead ==
    /\ r_pc = "head"
    /\ IF r_pos >= Len(r_iter)
       THEN /\ r_pc' = "summary"
            /\ UNCHANGED r_pos
       ELSE /\ r_pos' = r_pos + 1
            /\ r_pc' = IF should_stop(rm_stop_event) THEN "summary" ELSE "checked"
    /\ r_failure' = <<>>
    /\ UNCHANGED <<rm_running, rm_stop_event, rm_last_result, rm_starts, r_plan, r_iter,
                   r_observations, r_dispatched, r_replanned, r_nav_started, r_result,
                   r_replans, r_artifacts>>

\* classify, then agent._execute_step(nav, step) is called
Dispatch ==
    /\ r_pc = "checked"
    /\ r_dispatched' = Append(r_dispatched, r_iter[r_pos])
    /\ r_replanned' = FALSE
    /\ r_pc' = "exec"
    /\ UNCHANGED <<rm_running, rm_stop_event, rm_last_result, rm_starts, r_plan, r_iter,
                   r_pos, r_observations, r_nav_started, r_result, r_replans, r_failure,
                   r_artifacts>>

\* _execute_step returns an observation; one that fails validation brings a
\* re-plan, whose result repl is bound to plan
StepReturns(valid, repl) ==
    /\ r_pc = "exec"
    /\ r_observations' = Append(r_observations, [step |-> r_iter[r_pos], valid |-> valid])
    /\ IF valid
       THEN UNCHANGED <<r_plan, r_replanned, r_replans, r_iter, r_pos>>
       ELSE /\ r_plan' = repl
            /\ r_replanned' = TRUE
            /\ r_replans' = r_replans + 1
            /\ r_iter' = LoopAfterReplan(r_iter, r_pos, repl).iter
            /\ r_pos' = LoopAfterReplan(r_iter, r_pos, repl).pos
    /\ r_pc' = "head"
    /\ UNCHANGED <<rm_running, rm_stop_event, rm_last_result, rm_starts, r_dispatched,
                   r_nav_started, r_result, r_failure, r_artifacts>>

\* _execute_step returns an observation that fails validation, and the
\* snapshot for the re-plan raises: on to the except clause
StepReturnsSnapshotRaises ==
    /\ r_pc = "exec"
    /\ r_observations' = Append(r_observations, [step |-> r_iter[r_pos], valid |-> FALSE])
    /\ r_pc' = "handler"
    /\ UNCHANGED <<rm_running, rm_stop_event, rm_last_result, rm_starts, r_plan, r_iter,
                   r_pos, r_dispatched, r_replanned, r_nav_started, r_result, r_replans,
                   r_failure, r_artifacts>>

\* _execute_step raises: on to the except clause
StepRaises ==
    /\ r_pc = "exec"
    /\ r_pc' = "handler"
    /\ UNCHANGED <<rm_running, rm_stop_event, rm_last_result, rm_starts, r_plan, r_iter,
                   r_pos, r_observations, r_dispatched, r_replanned, r_nav_started,
                   r_result, r_replans, r_failure, r_artifacts>>

\* the except clause: the snapshot, the failure observation, the re-plan, whose
\* result repl is bound to plan, and continue
HandlerReplans(html_len, repl) ==
    /\ r_pc = "handler"
    /\ r_failure' = <<FailureObservation(html_len)>>
    /\ r_plan' = repl
    /\ r_replanned' = TRUE
    /\ r_replans' = r_replans + 1
    /\ r_iter' = LoopAfterReplan(r_iter, r_pos, repl).iter
    /\ r_pos' = LoopAfterReplan(r_iter, r_pos, repl).pos
    /\ r_pc' = "head"
    /\ UNCHANGED <<rm_running, rm_stop_event, rm_last_result, rm_starts, r_observations,
                   r_dispatched, r_nav_started, r_result, r_artifacts>>

\* the except clause: nav.page is set and page.content() of the snapshot raises;
\* nothing catches it there
HandlerSnapshotRaises ==
    /\ r_pc = "handler"
    /\ r_pc' = "raising"
    /\ UNCHANGED <<rm_running, rm_stop_event, rm_last_result, rm_starts, r_plan, r_iter,
                   r_pos, r_observations, r_dispatched, r_replanned, r_nav_started,
                   r_result, r_replans, r_failure, r_artifacts>>

\* the exception leaves the with-block: WebNavigator.__exit__ stops the
\* navigator, and run is left without a result
RunRaises ==
    /\ r_pc = "raising"
    /\ r_nav_started' = FALSE
    /\ r_pc' = "failed"
    /\ UNCHANGED <<rm_running, rm_stop_event, rm_last_result, rm_starts, r_plan, r_iter,
                   r_pos, r_observations, r_dispatched, r_replanned, r_result, r_replans,
                   r_failure, r_artifacts>>

\* after the loop: the navigator is stopped at the end of the with-block, the
\* summary is stored and run returns
RunReturns ==
    /\ r_pc = "summary"
    /\ r_nav_started' = FALSE
    /\ r_artifacts' = Append(r_artifacts, [name |-> "summary.txt",
                                            data |-> LastObservations(r_observations)])
    /\ r_result' = <<[plan |-> r_plan, observations |-> r_observations]>>
    /\ r_pc' = "returned"
    /\ UNCHANGED <<rm_running, rm_stop_event, rm_last_result, rm_starts, r_plan, r_iter,
                   r_pos, r_observations, r_dispatched, r_replanned, r_replans, r_failure>>

\* _runner: last_result is bound to the dict that run returned (the run's number
\* stands for the dict, whose content is r_result) or to an error record, and
\* finally running is cleared; the thread and its locals are gone
RunnerFinally ==
    /\ r_pc \in {"returned", "failed"}
    /\ rm_last_result' = <<[run |-> rm_starts, error |-> r_pc = "failed"]>>
    /\ rm_running' = FALSE
    /\ r_pc' = "idle"
    /\ r_plan' = <<>>
    /\ r_iter' = <<>>
    /\ r_pos' = 0
    /\ r_observations' = <<>>
    /\ r_dispatched' = <<>>
    /\ r_replanned' = FALSE
    /\ r_replans' = 0
    /\ r_failure' = <<>>
    /\ UNCHANGED <<rm_stop_event, rm_starts, r_nav_started, r_result, r_artifacts>>

\* the steps of the thread that runs MultiAgentRunner.run, with the planner's
\* answers taken from plans and the first plan from first
RunThread(first, plans) ==
    \/ \E plan \in first : RunBegin(plan) /\ UNCHANGED <<allowVars, navVars, poolVars, directVars, restVars>>
    \/ LoopHead /\ UNCHANGED <<allowVars, navVars, poolVars, directVars, restVars>>
    \/ Dispatch /\ UNCHANGED <<allowVars, navVars, poolVars, directVars, restVars>>
    \/ \E valid \in BOOLEAN, repl \in plans :
            StepReturns(valid, repl) /\ UNCHANGED <<allowVars, navVars, poolVars, directVars, restVars>>
    \/ StepReturnsSnapshotRaises /\ UNCHANGED <<allowVars, navVars, poolVars, directVars, restVars>>
    \/ StepRaises /\ UNCHANGED <<allowVars, navVars, poolVars, directVars, restVars>>
    \/ \E html_len \in HtmlLens, repl \in plans :
            HandlerReplans(html_len, repl) /\ UNCHANGED <<allowVars, navVars, poolVars, directVars, restVars>>
    \/ HandlerSnapshotRaises /\ UNCHANGED <<allowVars, navVars, poolVars, directVars, restVars>>
    \/ RunRaises /\ UNCHANGED <<allowVars, navVars, poolVars, directVars, restVars>>
    \/ RunReturns /\ UNCHANGED <<allowVars, navVars, poolVars, directVars, restVars>>
    \/ RunnerFinally /\ UNCHANGED <<allowVars, navVars, poolVars, directVars, restVars>>

NextRun ==
    \/ RunManagerStart /\ UNCHANGED <<allowVars, navVars, poolVars, directVars, restVars>>
    \/ RunManagerStop /\ UNCHANGED <<allowVars, navVars, poolVars, directVars, restVars>>
    \/ RunThread(Plans, Plans)

SpecRun == InitRun /\ [][NextRun]_vars

\* C9: the stop signal is looked at before every dispatch, and a step is
\* dispatched only after a look that found it unset; once a look finds it set
\* the run leaves the loop; a step in flight goes on to its end whatever the
\* signal does; and the run returns the observations gathered so far.
C9_StopCheckedBeforeDispatch ==
    /\ [][(r_pc' = "exec" /\ r_pc # "exec") => r_pc = "checked"]_vars
    /\ [][(r_pc' = "checked" /\ r_pc # "checked") => (r_pc = "head" /\ ~rm_stop_event)]_vars
    /\ [][(r_pc = "head" /\ rm_stop_event /\ r_pc' # "head") =>
            (r_pc' = "summary" /\ r_dispatched' = r_dispatched)]_vars
    /\ [][r_pc = "exec" => r_pc' \in {"exec", "head", "handler"}]_vars
    /\ [][r_pc = "summary" =>
            /\ r_observations' = r_observations
            /\ r_dispatched' = r_dispatched
            /\ r_pc' # "summary" =>
                    (r_pc' = "returned" /\ r_result'[1].observations = r_observations)]_vars

\* a run was stopped after its first step and before its last, and has returned
C9_Witness ==
    /\ r_pc = "returned"
    /\ rm_stop_event
    /\ Len(r_dispatched) >= 1
    /\ Len(r_dispatched) < Len(r_iter)
    /\ r_result[1].observations = r_observations

\* C10: after a re-plan the next step dispatched is the first step of the new
\* plan.
C10_ResumesAtStepOneOfNewPlan ==
    [][(r_pc = "checked" /\ r_pc' = "exec" /\ r_replanned) =>
            /\ r_plan # <<>>
            /\ r_dispatched'[Len(r_dispatched')] = r_plan[1]]_vars

\* the run's thread is scheduled, and every step and planner call returns
SpecRunLive == InitRun /\ [][NextRun]_vars /\ WF_vars(RunThread(Plans, Plans))

\* C11: the planner.replan calls of a run are bounded by the items the loop
\* has taken from the first plan, and a started run comes to its end, also
\* when every step fails or every observation is rejected.
C11_ReplanningTerminates ==
    /\ [](r_replans <= r_pos /\ r_pos <= Len(r_iter))
    /\ ((r_pc = "spawned") ~> (r_pc \in {"returned", "failed"}))

\* a run whose every step brought a re-plan has returned
C11_Witness ==
    /\ r_pc = "returned"
    /\ Len(r_iter) = MaxPlanLen
    /\ r_replans = Len(r_iter)

\* C12: an exception of a step never ends the run: the except clause makes the
\* failure observation (the message and the snapshot cut to 2000 characters),
\* hands it to one planner.replan call, and the loop goes on.
C12_StepExceptionNeverEndsRun ==
    [][(r_pc = "handler" /\ r_pc' # "handler") =>
            /\ r_pc' = "head"
            /\ r_replans' = r_replans + 1
            /\ r_failure' # <<>>
            /\ r_failure'[1].dom <= DomLimit]_vars

(***************************************************************************)
(* Runs of a plan long enough for the summary to leave observations out    *)
(***************************************************************************)
LongPlanLen == 6
LongPlan == [i \in 1..LongPlanLen |-> IF i % 2 = 1 THEN "s1" ELSE "s2"]
ShortPlans == {<<"s1">>}

NextRunLong ==
    \/ RunManagerStart /\ UNCHANGED <<allowVars, navVars, poolVars, directVars, restVars>>
    \/ RunManagerStop /\ UNCHANGED <<allowVars, navVars, poolVars, directVars, restVars>>
    \/ RunThread({LongPlan}, ShortPlans)

SpecRunLong == InitRun /\ [][NextRunLong]_vars

\* data is the last min(n, Len(observations)) items of observations
IsTail(data, observations, n) ==
    /\ Len(data) = Min(n, Len(observations))
    /\ \A i \in 1..Len(data) :
            data[i] = observations[Len(observations) - Len(data) + i]

DirectBegin(plan) ==
    /\ d_pc = "idle"
    /\ d_iter' = plan
    /\ d_pos' = 0
    /\ d_dispatched' = <<>>
    /\ d_pc' = "head"

\* the head of its loop: the next item, then run_manager.should_stop()
DirectLoopHead ==
    /\ d_pc = "head"
    /\ IF d_pos >= Len(d_iter)
       THEN /\ d_pc' = "summary"
            /\ UNCHANGED d_pos
       ELSE /\ d_pos' = d_pos + 1
            /\ d_pc' = IF should_stop(rm_stop_event) THEN "summary" ELSE "checked"
    /\ UNCHANGED <<d_iter, d_dispatched>>

\* its _execute_step is called
DirectDispatch ==
    /\ d_pc = "checked"
    /\ d_dispatched' = Append(d_dispatched, d_iter[d_pos])
    /\ d_pc' = "exec"
    /\ UNCHANGED <<d_iter, d_pos>>

\* its step is over, whatever came of it, and the loop continues
DirectStepEnds ==
    /\ d_pc = "exec"
    /\ d_pc' = "head"
    /\ UNCHANGED <<d_iter, d_pos, d_dispatched>>

\* its run returns
DirectReturns ==
    /\ d_pc = "summary"
    /\ d_pc' = "returned"
    /\ UNCHANGED <<d_iter, d_pos, d_dispatched>>

NextRunPair ==
    \/ RunManagerStart /\ UNCHANGED <<allowVars, navVars, poolVars, directVars, restVars>>
    \/ RunManagerStop /\ UNCHANGED <<allowVars, navVars, poolVars, directVars, restVars>>
    \/ RunThread(Plans, ShortPlans)
    \/ \E plan \in Plans : DirectBegin(plan) /\ UNCHANGED <<allowVars, navVars, poolVars, runVars, restVars>>
    \/ DirectLoopHead /\ UNCHANGED <<allowVars, navVars, poolVars, runVars, restVars>>
    \/ DirectDispatch /\ UNCHANGED <<allowVars, navVars, poolVars, runVars, restVars>>
    \/ DirectStepEnds /\ UNCHANGED <<allowVars, navVars, poolVars, runVars, restVars>>
    \/ DirectReturns /\ UNCHANGED <<allowVars, navVars, poolVars, runVars, restVars>>

SpecRunPair == InitRun /\ [][NextRunPair]_vars

\* C14: a stop request for one run ends only that run: the other run, for which
\* no stop was requested, dispatches every step of its list.
C14_StopEndsOnlyItsRun ==
    [][(d_pc = "head" /\ d_pos < Len(d_iter) /\ d_pc' # "head") => d_pc' = "checked"]_vars

(***************************************************************************)
(* The allowlist check on its own                                          *)
(***************************************************************************)
InitAllow ==
    /\ ParkRun
    /\ ParkDirect
    /\ ParkRest
    /\ ParkNav
    /\ ParkPool
    /\ a_allow \in AllowLists
    /\ a_url = <<>>
    /\ a_checked = FALSE
    /\ a_result = FALSE

CheckDomain(url) ==
    /\ a_url' = url
    /\ a_checked' = TRUE
    /\ a_result' = is_domain_allowed(a_allow, url)
    /\ UNCHANGED a_allow
    /\ UNCHANGED <<navVars, poolVars, runVars, directVars, restVars>>

NextAllow == \E url \in Urls : CheckDomain(url)

SpecAllow == InitAllow /\ [][NextAllow]_vars

\* C1: is_domain_allowed(url) is true iff the URL's host equals an allowlist
\* entry or ends with "." followed by the entry; a host that only ends with the
\* entry's characters, without the separating dot, is not allowed.
C1_DotSuffixOnly ==
    a_checked =>
        (a_result <=> \E d \in a_allow :
            \/ UrlHostname(a_url) = d
            \/ EndsWith(UrlHostname(a_url), <<".">> \o d))

(***************************************************************************)
(* One TokenBucket under consume calls at a non-decreasing clock           *)
(***************************************************************************)
MaxBucketTime == 140
BucketRates == {0, 1, 2}
BucketAdvanceSteps == {20, 60}
\* consume(n): the program asks for 1; 0 and more than the capacity are the edges
BucketAsks == {0, 1, 3}

\* a bucket as SecurityManager._bucket_for makes it
InitBucket ==
    /\ ParkAllow
    /\ ParkNav
    /\ ParkPool
    /\ ParkRun
    /\ ParkDirect
    /\ ParkSess
    /\ ParkMgr
    /\ ParkLoose
    /\ ParkStore
    /\ ParkRace
    /\ ParkFill
    /\ ParkStep
    /\ ParkSan
    /\ ParkTools
    /\ ParkRetry
    /\ ParkMem
    /\ ParkSel
    /\ ParkResolve
    /\ ParkSave
    /\ \E rate \in BucketRates : b_bucket = TokenBucket(Max(1, rate), 0)
    /\ b_now = 0
    /\ b_call = <<>>

\* time.time() moves on
BucketAdvance(d) ==
    /\ b_now + d <= MaxBucketTime
    /\ b_now' = b_now + d
    /\ UNCHANGED <<b_bucket, b_call>>

\* bucket.consume(n)
BucketConsume(n) ==
    LET c == Consume(b_bucket, n, b_now)
    IN  /\ b_bucket' = c.bucket
        /\ b_call' = <<[n |-> n, ok |-> c.ok, before |-> b_bucket, now |-> b_now]>>
        /\ UNCHANGED b_now

NextBucket ==
    \/ \E d \in BucketAdvanceSteps : BucketAdvance(d) /\ UNCHANGED <<allowVars, navVars, poolVars, runVars, directVars, selVars, resolveVars, saveVars, memVars, retryVars, toolsVars, sanVars, stepVars, fillVars, raceVars, storeVars, looseVars, mgrVars, sessVars>>
    \/ \E n \in BucketAsks : BucketConsume(n) /\ UNCHANGED <<allowVars, navVars, poolVars, runVars, directVars, selVars, resolveVars, saveVars, memVars, retryVars, toolsVars, sanVars, stepVars, fillVars, raceVars, storeVars, looseVars, mgrVars, sessVars>>

SpecBucket == InitBucket /\ [][NextBucket]_vars

Available(b, now) ==
    Min(b.capacity, b.tokens + Max(0, now - b.last_refill) * b.refill_rate)

\* C16: consume(n), after the lazy refill for the elapsed time: if n exceeds the
\* available tokens it returns false and deducts nothing; otherwise it returns
\* true and the tokens decrease by exactly n.
C16_ConsumeDeductsExactlyOrNothing ==
    b_call # <<>> =>
        LET c == b_call[1]
            avail == Available(c.before, c.now)
            ask == c.n * UnitsPerToken
        IN  /\ ask > avail => (~c.ok /\ b_bucket.tokens = avail)
            /\ ask <= avail => (c.ok /\ b_bucket.tokens = avail - ask)

\* C16: a refused consume on a bucket that a refill had partly filled
C16_Witness ==
    /\ b_call # <<>>
    /\ ~b_call[1].ok
    /\ b_call[1].n = 1
    /\ b_call[1].now > b_call[1].before.last_refill
    /\ b_bucket.tokens > 0

(***************************************************************************)
(* SelectorMemory.  The table is kept for one host and one label; a row is *)
(* [action, selector, success_count] and its id is its place in the table. *)
(* The column updated only orders rows of equal success_count, which is    *)
(* modelled as any order.                                                  *)
(***************************************************************************)
\* cur.fetchone() of save_success's SELECT: the id of the first row of the tuple, 0 if none
SelectRow(table, action, selector) ==
    IF \E i \in 1..Len(table) : table[i].action = action /\ table[i].selector = selector
    THEN CHOOSE i \in 1..Len(table) :
            /\ table[i].action = action /\ table[i].selector = selector
            /\ \A j \in 1..(i - 1) : ~(table[j].action = action /\ table[j].selector = selector)
    ELSE 0

\* save_success's UPDATE or INSERT, with what its SELECT had read, and the commit
WriteRow(table, action, selector, sid, cnt) ==
    IF sid # 0
    THEN [table EXCEPT ![sid].success_count = cnt + 1]
    ELSE Append(table, [action |-> action, selector |-> selector, success_count |-> 1])

\* SelectorMemory.save_success when nothing runs between its SELECT and its write
SaveSuccess(table, action, selector) ==
    LET sid == SelectRow(table, action, selector)
        cnt == IF sid = 0 THEN 0 ELSE table[sid].success_count
    IN  WriteRow(table, action, selector, sid, cnt)

\* ORDER BY success_count DESC: every order of the rows ids that has no row before
\* one of a higher success_count
RECURSIVE RankedOrders(_, _)
RankedOrders(table, ids) ==
    IF ids = {}
    THEN {<<>>}
    ELSE UNION {{<<i>> \o rest : rest \in RankedOrders(table, ids \ {i})} :
                    i \in {i \in ids : \A j \in ids :
                                table[i].success_count >= table[j].success_count}}

\* SelectorMemory.get: the selectors of the action, highest success_count first
MemGet(table, action) ==
    LET ids == {i \in 1..Len(table) : table[i].action = action}
    IN  {[k \in 1..Len(f) |-> table[f[k]].selector] : f \in RankedOrders(table, ids)}

(***************************************************************************)
(* WebNavigator.click_best and type_best: the fallback chain               *)
(***************************************************************************)
MemLimit == 5
MaxResolveCalls == 2
MaxTableLen == 2
Kinds == {"click", "type"}

\* the tables a call may find
ResolveRows == {[action |-> "click", selector |-> "css", success_count |-> 1],
                [action |-> "click", selector |-> "text", success_count |-> 2],
                [action |-> "type", selector |-> "css", success_count |-> 1],
                [action |-> "type", selector |-> "label", success_count |-> 2]}
\* a table that remembers more selectors for one label than a call looks at
LongSelectors == <<"m1", "m2", "m3", "m4", "m5", "m6">>
LongTable(kind) ==
    [i \in 1..Len(LongSelectors) |->
        [action |-> kind, selector |-> LongSelectors[i],
         success_count |-> Len(LongSelectors) + 1 - i]]
InitTables == {t \in SeqsUpTo(ResolveRows, MaxTableLen) :
                  \A i, j \in 1..Len(t) : i # j => t[i] # t[j]}
              \cup {LongTable(kind) : kind \in Kinds}

\* s[:n]
Prefix(s, n) == SubSeq(s, 1, Min(n, Len(s)))

\* the stage after a failed stage; "end" after the last one
NextStage(kind, stage) ==
    IF kind = "click"
    THEN CASE stage = "memory" -> "css"
           [] stage = "css" -> "role"
           [] stage = "role" -> "semantic"
           [] stage = "semantic" -> "text"
           [] OTHER -> "end"
    ELSE CASE stage = "memory" -> "css"
           [] stage = "css" -> "placeholder"
           [] stage = "placeholder" -> "label"
           [] stage = "label" -> "semantic"
           [] OTHER -> "end"

\* a plausible variant: a hit from memory is counted like any other hit
OnSuccess_AlwaysSaves(stage, host, table, kind, desc) ==
    IF host
    THEN [table |-> SaveSuccess(table, kind, desc), saves |-> 1]
    ELSE [table |-> table, saves |-> 0]

\* what follows a locator that worked: the table after it and the save_success calls
OnSuccess(stage, host, table, kind, desc) ==
    IF stage # "memory" /\ host
    THEN [table |-> SaveSuccess(table, kind, desc), saves |-> 1]
    ELSE [table |-> table, saves |-> 0]

InitResolve ==
    /\ ParkAllow
    /\ ParkNav
    /\ ParkPool
    /\ ParkRun
    /\ ParkDirect
    /\ ParkSess
    /\ ParkMgr
    /\ ParkLoose
    /\ ParkStore
    /\ ParkRace
    /\ ParkFill
    /\ ParkStep
    /\ ParkSan
    /\ ParkTools
    /\ ParkRetry
    /\ ParkMem
    /\ ParkBucket
    /\ ParkResolve
    /\ ParkSave
    /\ s_table \in InitTables

\* a caller enters click_best(target) or type_best(field, text)
ResolveCall(kind, host) ==
    /\ v_pc = "idle"
    /\ v_calls < MaxResolveCalls
    /\ v_calls' = v_calls + 1
    /\ v_kind' = kind
    /\ v_host' = host
    /\ \E mem \in (IF host THEN MemGet(s_table, kind) ELSE {<<>>}) :
            /\ v_mem' = Prefix(mem, MemLimit)
            /\ v_pc' = IF mem # <<>> THEN "memory" ELSE "css"
    /\ v_i' = 1
    /\ v_tried' = <<>>
    /\ v_stages' = <<>>
    /\ v_saves' = 0
    /\ v_table0' = s_table
    /\ v_outcome' = "none"
    /\ v_acted' = <<>>
    /\ v_error' = <<>>
    /\ UNCHANGED s_table

\* the locator of a stage worked: save_success unless it came from memory, return
Succeeds(stage, desc) ==
    LET r == OnSuccess(stage, v_host, s_table, v_kind, desc)
    IN  /\ s_table' = r.table
        /\ v_saves' = v_saves + r.saves
        /\ v_acted' = <<stage, desc>>
        /\ v_outcome' = "returned"
        /\ v_pc' = "idle"
        /\ UNCHANGED <<v_error, v_tried, v_i>>

\* the last except clause: log, then re-raise the locator's own exception
Raises ==
    /\ v_outcome' = "raised"
    /\ v_error' = <<[type |-> "PlaywrightError", attempted |-> <<>>]>>
    /\ v_pc' = "idle"
    /\ UNCHANGED <<s_table, v_saves, v_acted, v_tried, v_i>>

\* one selector from memory is tried
MemoryTry(ok) ==
    /\ v_pc = "memory"
    /\ v_stages' = Append(v_stages, <<"memory", v_mem[v_i]>>)
    /\ IF ok
       THEN Succeeds("memory", v_mem[v_i])
       ELSE /\ v_tried' = Append(v_tried, v_mem[v_i])
            /\ v_i' = v_i + 1
            /\ v_pc' = IF v_i = Len(v_mem) THEN NextStage(v_kind, "memory") ELSE "memory"
            /\ UNCHANGED <<s_table, v_saves, v_acted, v_outcome, v_error>>
    /\ UNCHANGED <<v_kind, v_host, v_mem, v_table0, v_calls>>

\* the CSS, role, placeholder, label or text stage
LocatorTry(ok) ==
    /\ v_pc \in {"css", "role", "placeholder", "label", "text"}
    /\ v_stages' = Append(v_stages, <<v_pc, v_pc>>)
    /\ IF ok
       THEN Succeeds(v_pc, v_pc)
       ELSE IF NextStage(v_kind, v_pc) = "end"
            THEN Raises
            ELSE /\ v_pc' = NextStage(v_kind, v_pc)
                 /\ UNCHANGED <<s_table, v_saves, v_acted, v_outcome, v_error, v_tried, v_i>>
    /\ UNCHANGED <<v_kind, v_host, v_mem, v_table0, v_calls>>

\* the semantic stage of click_best; cand is whether _semantic_candidate found one
ClickSemantic(cand, ok) ==
    /\ v_pc = "semantic"
    /\ v_kind = "click"
    /\ v_stages' = IF cand THEN Append(v_stages, <<"semantic", "semantic_text">>) ELSE v_stages
    /\ IF cand /\ ok
       THEN Succeeds("semantic", "semantic_text")
       ELSE /\ v_pc' = NextStage(v_kind, "semantic")
            /\ UNCHANGED <<s_table, v_saves, v_acted, v_outcome, v_error, v_tried, v_i>>
    /\ UNCHANGED <<v_kind, v_host, v_mem, v_table0, v_calls>>

\* the semantic stage of type_best: the candidate as placeholder, then as label
TypeSemantic(cand, ok_placeholder, ok_label) ==
    /\ v_pc = "semantic"
    /\ v_kind = "type"
    /\ IF ~cand
       THEN \* "if cand:" is skipped and the function ends
            /\ v_outcome' = "returned"
            /\ v_pc' = "idle"
            /\ UNCHANGED <<s_table, v_saves, v_acted, v_error, v_tried, v_i, v_stages>>
       ELSE IF ok_placeholder
       THEN /\ v_stages' = Append(v_stages, <<"semantic", "semantic_placeholder">>)
            /\ Succeeds("semantic", "semantic_placeholder")
       ELSE /\ v_stages' = v_stages \o <<<<"semantic", "semantic_placeholder">>,
                                         <<"semantic", "semantic_label">>>>
            /\ IF ok_label THEN Succeeds("semantic", "semantic_label") ELSE Raises
    /\ UNCHANGED <<v_kind, v_host, v_mem, v_table0, v_calls>>

NextResolve ==
    \/ \E kind \in Kinds, host \in BOOLEAN :
            ResolveCall(kind, host) /\ UNCHANGED <<allowVars, navVars, poolVars, runVars, directVars, bucketVars, saveVars, memVars, retryVars, toolsVars, sanVars, stepVars, fillVars, raceVars, storeVars, looseVars, mgrVars, sessVars>>
    \/ \E ok \in BOOLEAN : MemoryTry(ok) /\ UNCHANGED <<allowVars, navVars, poolVars, runVars, directVars, bucketVars, saveVars, memVars, retryVars, toolsVars, sanVars, stepVars, fillVars, raceVars, storeVars, looseVars, mgrVars, sessVars>>
    \/ \E ok \in BOOLEAN : LocatorTry(ok) /\ UNCHANGED <<allowVars, navVars, poolVars, runVars, directVars, bucketVars, saveVars, memVars, retryVars, toolsVars, sanVars, stepVars, fillVars, raceVars, storeVars, looseVars, mgrVars, sessVars>>
    \/ \E cand, ok \in BOOLEAN :
            ClickSemantic(cand, ok) /\ UNCHANGED <<allowVars, navVars, poolVars, runVars, directVars, bucketVars, saveVars, memVars, retryVars, toolsVars, sanVars, stepVars, fillVars, raceVars, storeVars, looseVars, mgrVars, sessVars>>
    \/ \E cand, ok_placeholder, ok_label \in BOOLEAN :
            TypeSemantic(cand, ok_placeholder, ok_label) /\ UNCHANGED <<allowVars, navVars, poolVars, runVars, directVars, bucketVars, saveVars, memVars, retryVars, toolsVars, sanVars, stepVars, fillVars, raceVars, storeVars, looseVars, mgrVars, sessVars>>

SpecResolve == InitResolve /\ [][NextResolve]_vars

\* C18: in click_best and type_best, once a descriptor from SelectorMemory succeeds
\* the call returns at once: no later stage is attempted, save_success is not called
\* and the selector store is as the call found it.
C18_MemoryHitReturnsUntouched ==
    (v_outcome = "returned" /\ v_acted # <<>> /\ v_acted[1] = "memory") =>
        /\ v_pc = "idle"
        /\ \A i \in 1..Len(v_stages) : v_stages[i][1] = "memory"
        /\ v_stages[Len(v_stages)] = v_acted
        /\ v_saves = 0
        /\ s_table = v_table0

\* C18: a call whose second remembered descriptor worked after the first failed
C18_Witness ==
    /\ v_outcome = "returned"
    /\ v_acted # <<>> /\ v_acted[1] = "memory"
    /\ Len(v_tried) = 1
    /\ v_host

\* C19: when every stage of the chain fails for a click or a type target, the
\* semantic resolver finding no candidate included, the call raises a
\* resolution-exhausted error carrying the attempted descriptors; it never returns
\* normally.
C19_ExhaustedChainRaises ==
    (v_pc = "idle" /\ v_outcome # "none" /\ v_acted = <<>>) =>
        /\ v_outcome = "raised"
        /\ v_error[1].type = "ResolutionExhausted"
        /\ v_error[1].attempted = [i \in 1..Len(v_stages) |-> v_stages[i][2]]

\* the place the claim gives a descriptor in the chain after the memory stage
ChainRank(kind, desc) ==
    IF kind = "click"
    THEN CASE desc = "css" -> 1
           [] desc = "role" -> 2
           [] desc = "semantic_text" -> 3
           [] desc = "text" -> 4
           [] OTHER -> 0
    ELSE CASE desc = "css" -> 1
           [] desc = "placeholder" -> 2
           [] desc = "label" -> 3
           [] desc = "semantic_placeholder" -> 4
           [] desc = "semantic_label" -> 5
           [] desc = "text" -> 6
           [] OTHER -> 0

\* the attempts of the call so far that came from memory, and the later ones
MemoryAttempts == SelectSeq(v_stages, LAMBDA a : a[1] = "memory")
ChainAttempts == SelectSeq(v_stages, LAMBDA a : a[1] # "memory")

\* the attempts follow the order of the chain: at most five remembered descriptors
\* in rank order first, then each later stage after every stage before it failed
StagesInOrder ==
    /\ v_stages = MemoryAttempts \o ChainAttempts
    /\ Len(MemoryAttempts) <= 5
    /\ \E mem \in (IF v_host THEN MemGet(v_table0, v_kind) ELSE {<<>>}) :
            /\ Len(MemoryAttempts) <= Len(mem)
            /\ \A i \in 1..Len(MemoryAttempts) : MemoryAttempts[i][2] = mem[i]
            /\ ChainAttempts # <<>> => Len(MemoryAttempts) = Min(5, Len(mem))
    /\ \A i \in 1..Len(ChainAttempts) :
            LET rank == ChainRank(v_kind, ChainAttempts[i][2])
            IN  /\ rank > 0
                /\ \A j \in 1..(i - 1) : ChainRank(v_kind, ChainAttempts[j][2]) < rank
                /\ \A d \in {"css", "role", "placeholder", "label"} :
                        (ChainRank(v_kind, d) > 0 /\ ChainRank(v_kind, d) < rank) =>
                            \E j \in 1..(i - 1) : ChainAttempts[j][2] = d
                /\ ChainAttempts[i][2] = "semantic_label" =>
                        (i > 1 /\ ChainAttempts[i - 1][2] = "semantic_placeholder")

\* the first stage that works ends the call, and a stage after the memory stage
\* has save_success called once, with its own descriptor
FirstSuccessSavedOnce ==
    (v_outcome = "returned" /\ v_acted # <<>>) =>
        /\ v_pc = "idle"
        /\ v_stages[Len(v_stages)] = v_acted
        /\ v_acted[1] # "memory" =>
                /\ v_saves = 1
                /\ s_table = SaveSuccess(v_table0, v_kind, v_acted[2])

\* a call that found no stage to work went through the chain to the plain text
ChainEndsWithText ==
    (v_pc = "idle" /\ v_outcome # "none" /\ v_acted = <<>>) =>
        /\ v_stages # <<>>
        /\ v_stages[Len(v_stages)][2] = "text"

\* C29: in click_best and type_best the stages run strictly in order: at most the
\* first 5 descriptors of the memory lookup in rank order, then the literal target,
\* then role/name (click) or placeholder then label (type), then the semantic
\* candidate, then plain text.  A stage is attempted only after every earlier stage
\* failed; the first success from a stage after the memory stage calls save_success
\* exactly once with the descriptor of that stage, and no later stage runs.
C29_StagesInOrderSavedOnce ==
    /\ StagesInOrder
    /\ FirstSuccessSavedOnce
    /\ ChainEndsWithText

(***************************************************************************)
(* SelectorMemory.save_success called by several callers at once, each on  *)
(* a connection of its own, for the same (host, action, label, selector).  *)
(* sqlite3 opens no transaction for the SELECT; the UPDATE or INSERT takes *)
(* the database's write lock and holds it until the commit.                *)
(***************************************************************************)
SaveThreads == {"t1", "t2", "t3"}
TheAction == "click"
TheSelector == "css"
MaxPrevCount == 2
OtherRow == [action |-> "type", selector |-> "css", success_count |-> 1]
TheRow(cnt) == [action |-> TheAction, selector |-> TheSelector, success_count |-> cnt]

\* the tables the callers may find: the tuple new, or there once with some count
SaveTables == {<<>>, <<OtherRow>>}
              \cup {<<TheRow(cnt)>> : cnt \in 1..MaxPrevCount}
              \cup {<<OtherRow, TheRow(cnt)>> : cnt \in 1..MaxPrevCount}

InitSave ==
    /\ ParkAllow
    /\ ParkNav
    /\ ParkPool
    /\ ParkRun
    /\ ParkDirect
    /\ ParkSess
    /\ ParkMgr
    /\ ParkLoose
    /\ ParkStore
    /\ ParkRace
    /\ ParkFill
    /\ ParkStep
    /\ ParkSan
    /\ ParkTools
    /\ ParkRetry
    /\ ParkMem
    /\ ParkBucket
    /\ ParkResolve
    /\ s_table \in SaveTables
    /\ c_table0 = s_table
    /\ c_lock = "free"
    /\ c_th = [t \in SaveThreads |-> [pc |-> "idle", sid |-> 0, cnt |-> 0]]

\* the SELECT and fetchone of caller t
SaveSelect(t) ==
    /\ c_th[t].pc = "idle"
    /\ LET sid == SelectRow(s_table, TheAction, TheSelector)
       IN  c_th' = [c_th EXCEPT ![t] = [pc |-> "selected", sid |-> sid,
                                        cnt |-> IF sid = 0 THEN 0
                                                ELSE s_table[sid].success_count]]
    /\ UNCHANGED <<s_table, c_lock, c_table0>>

\* the UPDATE or INSERT of caller t: it waits for the write lock
SaveWrite(t) ==
    /\ c_th[t].pc = "selected"
    /\ c_lock = "free"
    /\ c_lock' = t
    /\ c_th' = [c_th EXCEPT ![t].pc = "written"]
    /\ UNCHANGED <<s_table, c_table0>>

\* con.commit(); con.close() of caller t
SaveCommit(t) ==
    /\ c_th[t].pc = "written"
    /\ c_lock = t
    /\ s_table' = WriteRow(s_table, TheAction, TheSelector, c_th[t].sid, c_th[t].cnt)
    /\ c_lock' = "free"
    /\ c_th' = [c_th EXCEPT ![t].pc = "done"]
    /\ UNCHANGED c_table0

NextSave ==
    \/ \E t \in SaveThreads : SaveSelect(t) /\ UNCHANGED <<allowVars, navVars, poolVars, runVars, directVars, bucketVars, resolveVars, memVars, retryVars, toolsVars, sanVars, stepVars, fillVars, raceVars, storeVars, looseVars, mgrVars, sessVars>>
    \/ \E t \in SaveThreads : SaveWrite(t) /\ UNCHANGED <<allowVars, navVars, poolVars, runVars, directVars, bucketVars, resolveVars, memVars, retryVars, toolsVars, sanVars, stepVars, fillVars, raceVars, storeVars, looseVars, mgrVars, sessVars>>
    \/ \E t \in SaveThreads : SaveCommit(t) /\ UNCHANGED <<allowVars, navVars, poolVars, runVars, directVars, bucketVars, resolveVars, memVars, retryVars, toolsVars, sanVars, stepVars, fillVars, raceVars, storeVars, looseVars, mgrVars, sessVars>>

SpecSave == InitSave /\ [][NextSave]_vars

\* the ids of the rows of the tuple
TupleRows(table) ==
    {i \in 1..Len(table) : table[i].action = TheAction /\ table[i].selector = TheSelector}

\* the success_count the tuple had before the calls; 0 when it was new
PrevCount ==
    LET ids == TupleRows(c_table0)
    IN  IF ids = {} THEN 0 ELSE c_table0[CHOOSE i \in ids : TRUE].success_count

\* C20: for any interleaving of k concurrent save_success calls on one tuple, once
\* all have completed there is exactly one record for the tuple and its
\* success_count is the previous value plus k (k when the tuple was new).
C20_NoLostIncrementNoDuplicate ==
    LET called == {t \in SaveThreads : c_th[t].pc # "idle"}
        k == Cardinality(called)
    IN  (k > 0 /\ \A t \in called : c_th[t].pc = "done") =>
            /\ Cardinality(TupleRows(s_table)) = 1
            /\ \A i \in TupleRows(s_table) : s_table[i].success_count = PrevCount + k

(***************************************************************************)
(* SelectorMemory with all its columns: get and save_success called one    *)
(* after the other.  A row is [host, action, label, selector,              *)
(* success_count, updated]; its id is its place in the table.              *)
(***************************************************************************)
MaxMemSaves == 3
MaxMemTime == 2
\* keys that differ from the first in one column each
MemKeys == {<<"h1", "click", "l1">>, <<"h2", "click", "l1">>,
            <<"h1", "type", "l1">>, <<"h1", "click", "l2">>}
MemSelectors == {"s1", "s2"}

\* WHERE host=? AND action=? AND label=?
KeyRows(table, host, action, label) ==
    {i \in 1..Len(table) :
        table[i].host = host /\ table[i].action = action /\ table[i].label = label}

\* WHERE host=? AND action=? AND label=? AND selector=?
TupleIds(table, host, action, label, selector) ==
    {i \in KeyRows(table, host, action, label) : table[i].selector = selector}

\* a plausible variant: ORDER BY success_count DESC, updated ASC
get_OldestFirst(table, host, action, label) ==
    LET ids == KeyRows(table, host, action, label)
        n == Cardinality(ids)
    IN  {f \in [1..n -> ids] :
            /\ \A i, j \in 1..n : i # j => f[i] # f[j]
            /\ \A i, j \in 1..n : i < j =>
                  \/ table[f[i]].success_count > table[f[j]].success_count
                  \/ /\ table[f[i]].success_count = table[f[j]].success_count
                     /\ table[f[i]].updated <= table[f[j]].updated}

\* SelectorMemory.get: the orders in which the SELECT may hand out the ids of the
\* key's rows (rows equal in success_count and updated come in any order)
get(table, host, action, label) ==
    LET ids == KeyRows(table, host, action, label)
        n == Cardinality(ids)
    IN  {f \in [1..n -> ids] :
            /\ \A i, j \in 1..n : i # j => f[i] # f[j]
            /\ \A i, j \in 1..n : i < j =>
                  \/ table[f[i]].success_count > table[f[j]].success_count
                  \/ /\ table[f[i]].success_count = table[f[j]].success_count
                     /\ table[f[i]].updated >= table[f[j]].updated}

\* a plausible variant: the row is looked up by host and selector, as the second index is
save_success_ByHostSelector(table, host, action, label, selector, now) ==
    LET ids == {i \in 1..Len(table) : table[i].host = host /\ table[i].selector = selector}
    IN  IF ids # {}
        THEN LET sid == CHOOSE i \in ids : \A j \in ids : i <= j
             IN  [table EXCEPT ![sid].success_count = @ + 1, ![sid].updated = now]
        ELSE Append(table, [host |-> host, action |-> action, label |-> label,
                            selector |-> selector, success_count |-> 1, updated |-> now])

\* SelectorMemory.save_success: the table after the call
save_success(table, host, action, label, selector, now) ==
    LET ids == TupleIds(table, host, action, label, selector)
    IN  IF ids # {}
        THEN LET sid == CHOOSE i \in ids : \A j \in ids : i <= j
                 cnt == table[sid].success_count
             IN  [table EXCEPT ![sid].success_count = cnt + 1, ![sid].updated = now]
        ELSE Append(table, [host |-> host, action |-> action, label |-> label,
                            selector |-> selector, success_count |-> 1, updated |-> now])

InitMemory ==
    /\ ParkAllow
    /\ ParkNav
    /\ ParkPool
    /\ ParkRun
    /\ ParkDirect
    /\ ParkSess
    /\ ParkMgr
    /\ ParkLoose
    /\ ParkStore
    /\ ParkRace
    /\ ParkFill
    /\ ParkStep
    /\ ParkSan
    /\ ParkTools
    /\ ParkRetry
    /\ ParkBucket
    /\ ParkSel
    /\ ParkResolve
    /\ ParkSave
    /\ m_table = <<>>
    /\ m_now = 0
    /\ m_call = <<>>
    /\ m_saves = 0

\* time.time() moves on
MemTick ==
    /\ m_now < MaxMemTime
    /\ m_now' = m_now + 1
    /\ UNCHANGED <<m_table, m_call, m_saves>>

\* sel_mem.get(host, action, label)
GetCall(key) ==
    /\ \E f \in get(m_table, key[1], key[2], key[3]) :
            m_call' = <<[op |-> "get", key |-> key, ids |-> f,
                         result |-> [i \in DOMAIN f |-> m_table[f[i]].selector]]>>
    /\ UNCHANGED <<m_table, m_now, m_saves>>

\* sel_mem.save_success(host, action, label, selector)
SaveCall(key, selector) ==
    /\ m_saves < MaxMemSaves
    /\ m_saves' = m_saves + 1
    /\ m_table' = save_success(m_table, key[1], key[2], key[3], selector, m_now)
    /\ m_call' = <<[op |-> "save", key |-> key, selector |-> selector, now |-> m_now,
                   before |-> m_table]>>
    /\ UNCHANGED m_now

NextMemory ==
    \/ MemTick /\ UNCHANGED <<allowVars, navVars, poolVars, runVars, directVars, bucketVars, selVars, resolveVars, saveVars, retryVars, toolsVars, sanVars, stepVars, fillVars, raceVars, storeVars, looseVars, mgrVars, sessVars>>
    \/ \E key \in MemKeys : GetCall(key) /\ UNCHANGED <<allowVars, navVars, poolVars, runVars, directVars, bucketVars, selVars, resolveVars, saveVars, retryVars, toolsVars, sanVars, stepVars, fillVars, raceVars, storeVars, looseVars, mgrVars, sessVars>>
    \/ \E key \in MemKeys, selector \in MemSelectors :
            SaveCall(key, selector) /\ UNCHANGED <<allowVars, navVars, poolVars, runVars, directVars, bucketVars, selVars, resolveVars, saveVars, retryVars, toolsVars, sanVars, stepVars, fillVars, raceVars, storeVars, looseVars, mgrVars, sessVars>>

SpecMemory == InitMemory /\ [][NextMemory]_vars

\* C21: get(host, action, label) returns exactly the descriptors recorded for that
\* key, ordered by success_count descending with ties broken by the later updated
\* time first, and the empty list when nothing was recorded for the key.
C21_GetReturnsKeyRowsRanked ==
    (m_call # <<>> /\ m_call[1].op = "get") =>
        LET c == m_call[1]
            n == Len(c.result)
            mine == {i \in 1..Len(m_table) :
                        <<m_table[i].host, m_table[i].action, m_table[i].label>> = c.key}
        IN  /\ n = Cardinality(mine)
            /\ {c.ids[i] : i \in 1..n} = mine
            /\ \A i \in 1..n : c.result[i] = m_table[c.ids[i]].selector
            /\ \A i \in 1..(n - 1) :
                  LET a == m_table[c.ids[i]]
                      b == m_table[c.ids[i + 1]]
                  IN  \/ a.success_count > b.success_count
                      \/ a.success_count = b.success_count /\ a.updated >= b.updated
            /\ mine = {} => c.result = <<>>

\* C21: a get that returned two descriptors of equal success_count, the one updated
\* later first though it was recorded first, from a table that holds another key too
C21_Witness ==
    /\ m_call # <<>> /\ m_call[1].op = "get"
    /\ Len(m_call[1].result) = 2
    /\ m_table[m_call[1].ids[1]].success_count = m_table[m_call[1].ids[2]].success_count
    /\ m_table[m_call[1].ids[1]].updated > m_table[m_call[1].ids[2]].updated
    /\ Len(m_table) = 3

\* C22: one save_success call on a recorded tuple raises that record's
\* success_count by exactly 1 and sets its timestamp; on a tuple not yet recorded it
\* inserts one record with success_count 1; every other record is unchanged.
C22_SaveCountsOnce ==
    (m_call # <<>> /\ m_call[1].op = "save") =>
        LET c == m_call[1]
            b == c.before
            was == {i \in 1..Len(b) :
                      /\ <<b[i].host, b[i].action, b[i].label>> = c.key
                      /\ b[i].selector = c.selector}
        IN  IF was # {}
            THEN /\ Len(m_table) = Len(b)
                 /\ \A i \in was :
                      /\ m_table[i].success_count = b[i].success_count + 1
                      /\ m_table[i].updated = c.now
                      /\ [m_table[i] EXCEPT !.success_count = 0, !.updated = 0]
                            = [b[i] EXCEPT !.success_count = 0, !.updated = 0]
                 /\ \A i \in (1..Len(b)) \ was : m_table[i] = b[i]
            ELSE /\ Len(m_table) = Len(b) + 1
                 /\ \A i \in 1..Len(b) : m_table[i] = b[i]
                 /\ LET r == m_table[Len(m_table)]
                    IN  /\ <<r.host, r.action, r.label>> = c.key
                        /\ r.selector = c.selector
                        /\ r.success_count = 1
                        /\ r.updated = c.now

\* C22: a save on a recorded tuple, at a later time, in a table with a record of the
\* same host and selector under another label
C22_Witness ==
    /\ m_call # <<>> /\ m_call[1].op = "save"
    /\ Len(m_table) = Len(m_call[1].before)
    /\ Len(m_table) = 2
    /\ m_table[2].success_count = 2
    /\ m_table[2].updated > m_call[1].before[2].updated
    /\ m_table[1].host = m_table[2].host /\ m_table[1].selector = m_table[2].selector

(***************************************************************************)
(* The primitive operations goto, click and type, each under               *)
(* retry(reraise=True, stop=stop_after_attempt(3), wait=wait_exponential)  *)
(***************************************************************************)
MaxRetryCalls == 2
PrimitiveOps == {"goto", "click", "type"}

\* what one run of the body may end in
BodyOutcomes(op) ==
    IF op = "goto" THEN {"ok", "PermissionError", "RuntimeError", "TimeoutError"}
    ELSE {"ok", "TimeoutError", "Error"}

\* a plausible variant: reraise left at its default, tenacity raises its own RetryError
Reraise_RetryError(excs) == "RetryError"

\* reraise=True: the call raises what the last attempt raised
Reraise(excs) == excs[Len(excs)]

InitRetry ==
    /\ ParkAllow
    /\ ParkNav
    /\ ParkPool
    /\ ParkRun
    /\ ParkDirect
    /\ ParkSess
    /\ ParkMgr
    /\ ParkLoose
    /\ ParkStore
    /\ ParkRace
    /\ ParkFill
    /\ ParkStep
    /\ ParkSan
    /\ ParkTools
    /\ ParkBucket
    /\ ParkSel
    /\ ParkResolve
    /\ ParkSave
    /\ ParkMem
    /\ ParkRetry

\* a caller enters goto(url), click(selector) or type(selector, text)
PrimitiveCall(op) ==
    /\ t_pc = "idle"
    /\ t_calls < MaxRetryCalls
    /\ t_calls' = t_calls + 1
    /\ t_op' = op
    /\ t_pc' = "try"
    /\ t_attempts' = 0
    /\ t_excs' = <<>>
    /\ t_outcome' = "none"
    /\ t_slept' = 0

\* the body runs once and returns or raises
PrimitiveAttempt(res) ==
    /\ t_pc = "try"
    /\ res \in BodyOutcomes(t_op)
    /\ t_attempts' = t_attempts + 1
    /\ IF res = "ok"
       THEN /\ t_outcome' = "ok"
            /\ t_pc' = "idle"
            /\ UNCHANGED t_excs
       ELSE /\ t_excs' = Append(t_excs, res)
            /\ IF RetryStops(t_attempts + 1, res)
               THEN t_outcome' = Reraise(t_excs') /\ t_pc' = "idle"
               ELSE t_outcome' = "none" /\ t_pc' = "backoff"
    /\ UNCHANGED <<t_op, t_slept, t_calls>>

\* tenacity sleeps, then the next attempt is due
PrimitiveBackoff ==
    /\ t_pc = "backoff"
    /\ t_slept' = t_slept + BackoffTicks(t_attempts)
    /\ t_pc' = "try"
    /\ UNCHANGED <<t_op, t_attempts, t_excs, t_outcome, t_calls>>

NextRetry ==
    \/ \E op \in PrimitiveOps : PrimitiveCall(op) /\ UNCHANGED <<allowVars, navVars, poolVars, runVars, directVars, bucketVars, selVars, resolveVars, saveVars, memVars, toolsVars, sanVars, stepVars, fillVars, raceVars, storeVars, looseVars, mgrVars, sessVars>>
    \/ \E res \in {"ok", "PermissionError", "RuntimeError", "TimeoutError", "Error"} :
            PrimitiveAttempt(res) /\ UNCHANGED <<allowVars, navVars, poolVars, runVars, directVars, bucketVars, selVars, resolveVars, saveVars, memVars, toolsVars, sanVars, stepVars, fillVars, raceVars, storeVars, looseVars, mgrVars, sessVars>>
    \/ PrimitiveBackoff /\ UNCHANGED <<allowVars, navVars, poolVars, runVars, directVars, bucketVars, selVars, resolveVars, saveVars, memVars, toolsVars, sanVars, stepVars, fillVars, raceVars, storeVars, looseVars, mgrVars, sessVars>>

SpecRetry == InitRetry /\ [][NextRetry]_vars

\* C23: each of goto, click and type is attempted at most 3 times per call; it
\* returns on the first attempt that succeeds, with no further attempt, and when
\* all 3 attempts fail it raises the exception of the final attempt unmodified.
C23_ThreeAttemptsLastErrorRaised ==
    /\ t_attempts <= 3
    /\ (t_pc = "idle" /\ t_outcome = "ok") => t_attempts = Len(t_excs) + 1
    /\ (t_pc = "idle" /\ t_outcome \notin {"none", "ok"}) =>
            /\ t_attempts = 3
            /\ Len(t_excs) = 3
            /\ t_outcome = t_excs[3]
    /\ t_pc # "idle" => (t_outcome = "none" /\ t_attempts = Len(t_excs))

\* C23: a call that failed three times, the last time otherwise than before
C23_Witness ==
    /\ t_pc = "idle"
    /\ Len(t_excs) = 3
    /\ t_excs[3] # t_excs[2]
    /\ t_outcome = t_excs[3]

(***************************************************************************)
(* parse_action and Tools.apply.  Text is a sequence of characters; None   *)
(* is <<>> and a value v that may be None is <<v>>.                        *)
(***************************************************************************)
Quote == "\""
Space == " "
Digits == {"0", "7"}
DigitValue(c) == IF c = "7" THEN 7 ELSE 0

\* str.strip()
RECURSIVE LStrip(_)
LStrip(s) == IF s # <<>> /\ Head(s) = Space THEN LStrip(Tail(s)) ELSE s
RECURSIVE RStrip(_)
RStrip(s) == IF s # <<>> /\ s[Len(s)] = Space THEN RStrip(SubSeq(s, 1, Len(s) - 1)) ELSE s
Strip(s) == RStrip(LStrip(s))

\* str.strip('"')
RECURSIVE LStripQuote(_)
LStripQuote(s) == IF s # <<>> /\ Head(s) = Quote THEN LStripQuote(Tail(s)) ELSE s
RECURSIVE RStripQuote(_)
RStripQuote(s) ==
    IF s # <<>> /\ s[Len(s)] = Quote THEN RStripQuote(SubSeq(s, 1, Len(s) - 1)) ELSE s

\* the local function u of parse_action
u(x) == RStripQuote(LStripQuote(Strip(x)))

\* str.lower(), for the letters the inputs below are written in
LowerChar(c) ==
    CASE c = "C" -> "c"
      [] c = "W" -> "w"
      [] c = "S" -> "s"
      [] c = "O" -> "o"
      [] c = "N" -> "n"
      [] c = "L" -> "l"
      [] c = "A" -> "a"
      [] c = "D" -> "d"
      [] c = "E" -> "e"
      [] c = "R" -> "r"
      [] c = "T" -> "t"
      [] c = "I" -> "i"
      [] c = "M" -> "m"
      [] c = "U" -> "u"
      [] c = "F" -> "f"
      [] c = "P" -> "p"
      [] c = "V" -> "v"
      [] c = "G" -> "g"
      [] c = "H" -> "h"
      [] OTHER -> c
Lower(s) == [i \in 1..Len(s) |-> LowerChar(s[i])]

\* int(x) for text of decimal digits; <<>> when int raises ValueError
ParseInt(x) ==
    LET RECURSIVE Val(_, _)
        Val(i, acc) == IF i > Len(x) THEN acc ELSE Val(i + 1, 10 * acc + DigitValue(x[i]))
    IN  IF x # <<>> /\ \A i \in 1..Len(x) : x[i] \in Digits THEN <<Val(1, 0)>> ELSE <<>>

\* a plausible variant: every comma splits, quoted or not
SplitArgs_EveryComma(args) ==
    LET RECURSIVE Loop(_, _, _)
        Loop(i, parts, cur) ==
            IF i > Len(args)
            THEN IF cur # <<>> THEN Append(parts, Strip(cur)) ELSE parts
            ELSE IF args[i] = Quote THEN Loop(i + 1, parts, cur)
            ELSE IF args[i] = "," THEN Loop(i + 1, Append(parts, Strip(cur)), <<>>)
            ELSE Loop(i + 1, parts, Append(cur, args[i]))
    IN  Loop(1, <<>>, <<>>)

\* the while loop of parse_action and the "if cur" after it: the list parts
SplitArgs(args) ==
    LET RECURSIVE Loop(_, _, _, _)
        Loop(i, parts, cur, in_q) ==
            IF i > Len(args)
            THEN IF cur # <<>> THEN Append(parts, Strip(cur)) ELSE parts
            ELSE IF args[i] = Quote THEN Loop(i + 1, parts, cur, ~in_q)
            ELSE IF args[i] = "," /\ ~in_q
                 THEN Loop(i + 1, Append(parts, Strip(cur)), <<>>, in_q)
            ELSE Loop(i + 1, parts, Append(cur, args[i]), in_q)
    IN  Loop(1, <<>>, <<>>, FALSE)

Txt_open == <<"o", "p", "e", "n">>
Txt_open_url == <<"o", "p", "e", "n", "_", "u", "r", "l">>
Txt_click == <<"c", "l", "i", "c", "k">>
Txt_type == <<"t", "y", "p", "e">>
Txt_fill == <<"f", "i", "l", "l">>
Txt_wait == <<"w", "a", "i", "t">>
Txt_scroll == <<"s", "c", "r", "o", "l", "l">>
Txt_extract == <<"e", "x", "t", "r", "a", "c", "t">>
Txt_upload == <<"u", "p", "l", "o", "a", "d">>
Txt_new_tab == <<"n", "e", "w", "_", "t", "a", "b">>
Txt_switch_tab == <<"s", "w", "i", "t", "c", "h", "_", "t", "a", "b">>
Txt_input_textarea == <<"i", "n", "p", "u", "t", ",", " ", "t", "e", "x", "t", "a", "r", "e", "a">>
Txt_a_button == <<"a", ",", " ", "b", "u", "t", "t", "o", "n">>
Txt_title == <<"t", "i", "t", "l", "e">>
Txt_file_input == <<"i", "n", "p", "u", "t", "[", "t", "y", "p", "e", "=", "f", "i", "l", "e", "]">>
Txt_example == <<"h", "t", "t", "p", "s", ":", "/", "/", "e", "x", "a", "m", "p", "l", "e", ".", "c", "o", "m">>
Txt_blank == <<"a", "b", "o", "u", "t", ":", "b", "l", "a", "n", "k">>
DefaultWaitMs == 1000
DefaultScrollPx == 800

\* Action(kind, a, b, n)
Action(kind, a, b, n) == [kind |-> kind, a |-> a, b |-> b, n |-> n]

\* parts[i] through u, or the default when the list is too short
Arg(parts, i, default) == IF Len(parts) >= i THEN <<u(parts[i])>> ELSE default

\* int(u(parts[0])) with its except clause
IntArg(parts, default) ==
    IF parts = <<>> THEN <<default>>
    ELSE IF ParseInt(u(parts[1])) = <<>> THEN <<default>> ELSE ParseInt(u(parts[1]))

\* parse_action: <<>> for None, else <<the Action>>; parts is the list it split
parse_action(step) ==
    LET s == Strip(step)
        open == FirstIdx(s, {"("}, 1)
    IN  IF open = 0 \/ s[Len(s)] # ")"
        THEN [act |-> <<>>, parts |-> <<>>]
        ELSE LET name == Lower(Strip(SubSeq(s, 1, open - 1)))
                 args == SubSeq(s, open + 1, Len(s) - 1)
                 parts == SplitArgs(args)
                 act ==
                    CASE name \in {Txt_open, Txt_open_url} ->
                            <<Action("open", Arg(parts, 1, <<>>), <<>>, <<>>)>>
                      [] name = Txt_click ->
                            <<Action("click", Arg(parts, 1, <<>>), <<>>, <<>>)>>
                      [] name \in {Txt_type, Txt_fill} ->
                            <<Action("type", Arg(parts, 1, <<<<>>>>),
                                     Arg(parts, 2, <<Txt_input_textarea>>), <<>>)>>
                      [] name = Txt_wait ->
                            <<Action("wait", <<>>, <<>>, IntArg(parts, DefaultWaitMs))>>
                      [] name = Txt_scroll ->
                            <<Action("scroll", <<>>, <<>>, IntArg(parts, DefaultScrollPx))>>
                      [] name = Txt_extract ->
                            <<Action("extract", Arg(parts, 1, <<Txt_title>>), <<>>, <<>>)>>
                      [] name = Txt_upload ->
                            <<Action("upload", Arg(parts, 1, <<Txt_file_input>>),
                                     Arg(parts, 2, <<<<>>>>), <<>>)>>
                      [] name = Txt_new_tab ->
                            <<Action("new_tab", Arg(parts, 1, <<>>), <<>>, <<>>)>>
                      [] name = Txt_switch_tab ->
                            <<Action("switch_tab", <<>>, <<>>, IntArg(parts, 0))>>
                      [] OTHER -> <<>>
             IN  [act |-> act, parts |-> parts]

\* x or default, for a text that may be None: None and '' are false
OrText(opt, default) == IF opt = <<>> \/ opt[1] = <<>> THEN default ELSE opt[1]

\* x or default, for a number that may be None: None and 0 are false
OrInt(opt, default) == IF opt = <<>> \/ opt[1] = 0 THEN default ELSE opt[1]

\* PermissionManager.check
PermissionCheck(policy, action) ==
    CASE action = "login" -> policy.allow_login \/ policy.auto_approve
      [] action = "upload" -> policy.allow_upload \/ policy.auto_approve
      [] action = "off-allowlist" -> policy.allow_off_allowlist \/ policy.auto_approve
      [] OTHER -> TRUE

\* WebNavigator.upload_file: the page operations done and how the call ends;
\* page_ok is whether the file input shows up in time
upload_file(file_exists, page_ok) ==
    IF ~file_exists
    THEN [ops |-> <<>>, outcome |-> "raised", value |-> "FileNotFoundError"]
    ELSE IF ~page_ok
    THEN [ops |-> <<"wait_for_selector">>, outcome |-> "raised", value |-> "TimeoutError"]
    ELSE [ops |-> <<"wait_for_selector", "set_input_files">>,
          outcome |-> "returned", value |-> "None"]

\* a navigator call of apply other than upload_file: it returns or it raises
NavCall(method, page_ok) ==
    [ops |-> <<method>>,
     outcome |-> IF page_ok THEN "returned" ELSE "raised",
     value |-> IF page_ok THEN "None" ELSE "Error"]

\* Tools.apply: what it hands to the navigator, the page operations, the result
apply(policy, act, file_exists, page_ok) ==
    LET k == act.kind
        Used(a, b, n) == [a |-> a, b |-> b, n |-> n]
        Ends(call, used, obs) ==
            [used |-> used, ops |-> call.ops,
             result |-> IF call.outcome = "returned"
                        THEN [outcome |-> "returned", value |-> obs]
                        ELSE [outcome |-> "raised", value |-> call.value]]
    IN  CASE k = "open" ->
                Ends(NavCall("goto", page_ok),
                     Used(<<OrText(act.a, Txt_example)>>, <<>>, <<>>), "navigated")
          [] k = "click" ->
                Ends(NavCall("click_best", page_ok),
                     Used(<<OrText(act.a, Txt_a_button)>>, <<>>, <<>>), "clicked")
          [] k = "type" ->
                Ends(NavCall("type_best", page_ok),
                     Used(<<OrText(act.a, <<>>)>>, <<OrText(act.b, Txt_input_textarea)>>, <<>>),
                     "typed")
          [] k = "wait" ->
                [used |-> Used(<<>>, <<>>, <<OrInt(act.n, DefaultWaitMs)>>), ops |-> <<>>,
                 result |-> [outcome |-> "returned", value |-> "waited_ms"]]
          [] k = "scroll" ->
                \* WebNavigator.scroll logs what the page raises and returns
                [used |-> Used(<<>>, <<>>, <<OrInt(act.n, DefaultScrollPx)>>),
                 ops |-> <<"scroll">>,
                 result |-> [outcome |-> "returned", value |-> "scrolled"]]
          [] k = "extract" ->
                Ends(NavCall("extract_text", page_ok),
                     Used(<<OrText(act.a, Txt_title)>>, <<>>, <<>>), "extract")
          [] k = "upload" ->
                IF ~PermissionCheck(policy, "upload")
                THEN [used |-> Used(<<>>, <<>>, <<>>), ops |-> <<>>,
                      result |-> [outcome |-> "returned", value |-> "blocked:upload"]]
                ELSE Ends(upload_file(file_exists, page_ok),
                          Used(<<OrText(act.a, Txt_file_input)>>, <<OrText(act.b, <<>>)>>, <<>>),
                          "uploaded")
          [] k = "new_tab" ->
                Ends(NavCall("open_new_tab", page_ok),
                     Used(<<OrText(act.a, Txt_blank)>>, <<>>, <<>>), "new_tab")
          [] OTHER ->
                \* switch_tab: WebNavigator.switch_to_tab logs a bad index and returns
                [used |-> Used(<<>>, <<>>, <<OrInt(act.n, 0)>>), ops |-> <<"switch_to_tab">>,
                 result |-> [outcome |-> "returned", value |-> "switched_tab"]]

MaxArgLen == 3
ArgChars == {"a", ",", Quote, Space, "0", "7"}
\* arguments longer than MaxArgLen that the claims speak of
LongArgs == {<<Quote, "a", ",", "a", Quote>>,
             <<Quote, "a", ",", "a", Quote, ",", "7">>,
             <<"7", ",", Quote, "a", ",", Space, "a", Quote>>}
StepNames == {Txt_open, Txt_open_url, Txt_click, Txt_type, Txt_fill, Txt_wait, Txt_scroll,
              Txt_extract, Txt_upload, Txt_new_tab, Txt_switch_tab,
              <<"C", "l", "i", "c", "k">>, <<Space>> \o Txt_wait \o <<Space>>,
              <<"t", "a", "p">>, <<>>}
\* name(args), and the same with a part of the frame missing or text after it
StepTexts ==
    LET args == SeqsUpTo(ArgChars, MaxArgLen) \cup LongArgs
    IN  {n \o <<"(">> \o a \o <<")">> : n \in StepNames, a \in args}
        \cup {n \o <<"(">> \o a \o <<")", Space>> : n \in {Txt_click}, a \in LongArgs}
        \cup {n \o <<"(">> \o a : n \in {Txt_click, Txt_wait}, a \in LongArgs \cup {<<>>}}
        \cup {n \o a \o <<")">> : n \in {Txt_click, Txt_wait}, a \in LongArgs \cup {<<>>}}
        \cup {n \o <<"(">> \o a \o <<")", "a">> : n \in {Txt_click}, a \in LongArgs}
Policies == [allow_login : {FALSE}, allow_upload : BOOLEAN,
             allow_off_allowlist : {FALSE}, auto_approve : BOOLEAN]

InitTools ==
    /\ ParkAllow
    /\ ParkNav
    /\ ParkPool
    /\ ParkRun
    /\ ParkDirect
    /\ ParkSess
    /\ ParkMgr
    /\ ParkLoose
    /\ ParkStore
    /\ ParkRace
    /\ ParkFill
    /\ ParkStep
    /\ ParkSan
    /\ ParkBucket
    /\ ParkSel
    /\ ParkResolve
    /\ ParkSave
    /\ ParkMem
    /\ ParkRetry
    /\ x_policy \in Policies
    /\ x_step \in StepTexts
    /\ x_pc = "new"
    /\ x_parts = <<>>
    /\ x_act = <<>>
    /\ x_used = <<>>
    /\ x_page_ops = <<>>
    /\ x_result = <<>>

\* act = parse_action(step)
ParseStep ==
    /\ x_pc = "new"
    /\ x_pc' = "parsed"
    /\ x_act' = parse_action(x_step).act
    /\ x_parts' = parse_action(x_step).parts
    /\ UNCHANGED <<x_policy, x_step, x_used, x_page_ops, x_result>>

\* tools.apply(act)
ApplyStep(file_exists, page_ok) ==
    /\ x_pc = "parsed"
    /\ x_act # <<>>
    /\ x_pc' = "applied"
    /\ LET r == apply(x_policy, x_act[1], file_exists, page_ok)
       IN  /\ x_used' = <<r.used>>
           /\ x_page_ops' = r.ops
           /\ x_result' = <<[outcome |-> r.result.outcome, value |-> r.result.value,
                             file_exists |-> file_exists, page_ok |-> page_ok]>>
    /\ UNCHANGED <<x_policy, x_step, x_parts, x_act>>

NextTools ==
    \/ ParseStep /\ UNCHANGED <<allowVars, navVars, poolVars, runVars, directVars, bucketVars, selVars, resolveVars, saveVars, memVars, retryVars, sanVars, stepVars, fillVars, raceVars, storeVars, looseVars, mgrVars, sessVars>>
    \/ \E file_exists, page_ok \in BOOLEAN :
            ApplyStep(file_exists, page_ok) /\ UNCHANGED <<allowVars, navVars, poolVars, runVars, directVars, bucketVars, selVars, resolveVars, saveVars, memVars, retryVars, sanVars, stepVars, fillVars, raceVars, storeVars, looseVars, mgrVars, sessVars>>

SpecTools == InitTools /\ [][NextTools]_vars

\* C24: the upload action runs the permission check first: when it denies, the
\* action fails with a not-permitted error and the page is not touched; when it
\* passes and the source file does not exist, the action fails with a not-found
\* error before the file input is set.
C24_UploadNeedsPermissionThenFile ==
    (x_pc = "applied" /\ x_act[1].kind = "upload") =>
        /\ ~(x_policy.allow_upload \/ x_policy.auto_approve) =>
                /\ x_page_ops = <<>>
                /\ x_result[1].outcome = "raised"
                /\ x_result[1].value \in {"NotPermitted", "PermissionError"}
        /\ ((x_policy.allow_upload \/ x_policy.auto_approve) /\ ~x_result[1].file_exists) =>
                /\ x_page_ops = <<>>
                /\ x_result[1].outcome = "raised"
                /\ x_result[1].value = "FileNotFoundError"

\* the text between the first "(" and the last character of a step
TextInParens(step) ==
    LET s == Strip(step)
    IN  SubSeq(s, FirstIdx(s, {"("}, 1) + 1, Len(s) - 1)

KnownNames == {Txt_open, Txt_open_url, Txt_click, Txt_type, Txt_fill, Txt_wait, Txt_scroll,
               Txt_extract, Txt_upload, Txt_new_tab, Txt_switch_tab}

\* C25: parse_action splits the arguments of name(args) on the commas outside
\* double quotes only, so a quoted argument with commas in it is one argument
\* without its quotes; a step whose name is none of the known ones, or that has no
\* "(" or does not end in ")", parses to None.
C25_SplitsOutsideQuotesOnly ==
    x_pc # "new" =>
        LET s == Strip(x_step)
            open == FirstIdx(s, {"("}, 1)
            framed == open # 0 /\ s[Len(s)] = ")"
            name == Lower(Strip(SubSeq(s, 1, open - 1)))
            inner == TextInParens(x_step)
            quotes == {i \in 1..Len(inner) : inner[i] = Quote}
            commas == {i \in 1..Len(inner) : inner[i] = ","}
        IN  /\ x_act = <<>> <=> (~framed \/ name \notin KnownNames)
            /\ x_act # <<>> =>
                /\ \A i \in 1..Len(x_parts) : \A j \in 1..Len(x_parts[i]) : x_parts[i][j] # Quote
                \* no quotes: every comma splits
                /\ quotes = {} =>
                      /\ \A i \in 1..Len(x_parts) :
                            \A j \in 1..Len(x_parts[i]) : x_parts[i][j] # ","
                      /\ Len(x_parts) \in {Cardinality(commas), Cardinality(commas) + 1}
                \* one quoted argument: one part, commas and all
                /\ (quotes = {1, Len(inner)} /\ Len(inner) >= 2
                        /\ Strip(SubSeq(inner, 2, Len(inner) - 1)) # <<>>) =>
                      x_parts = <<Strip(SubSeq(inner, 2, Len(inner) - 1))>>

\* C25: click("a,a") parsed into a click on the one target a,a
C25_Witness ==
    /\ x_pc = "parsed"
    /\ x_step = Txt_click \o <<"(", Quote, "a", ",", "a", Quote, ")">>
    /\ x_act = <<Action("click", <<<<"a", ",", "a">>>>, <<>>, <<>>)>>

\* C26: parse_action followed by Tools.apply uses a default exactly when the
\* argument is missing or unparsable (click 'a, button', wait 1000 ms, scroll 800 px,
\* extract 'title', upload 'input[type=file]', type field 'input, textarea') and
\* otherwise the supplied value as given.  Stated for steps with one plain argument
\* or none: no quote and no comma between the parentheses.
C26_DefaultOnlyWhenMissing ==
    (x_pc = "applied"
        /\ \A i \in 1..Len(TextInParens(x_step)) : TextInParens(x_step)[i] \notin {Quote, ","}) =>
        LET raw == Strip(TextInParens(x_step))
            k == x_act[1].kind
            used == x_used[1]
            number == raw # <<>> /\ \A i \in 1..Len(raw) : raw[i] \in Digits
            Text(default) == IF raw = <<>> THEN <<default>> ELSE <<raw>>
            Number(default) == IF number THEN ParseInt(raw) ELSE <<default>>
            denied == k = "upload" /\ ~(x_policy.allow_upload \/ x_policy.auto_approve)
        IN  /\ k = "click" => used.a = Text(Txt_a_button)
            /\ k = "extract" => used.a = Text(Txt_title)
            /\ (k = "upload" /\ ~denied) => used.a = Text(Txt_file_input)
            /\ k = "type" => used.b = <<Txt_input_textarea>>
            /\ k = "wait" => used.n = Number(DefaultWaitMs)
            /\ k = "scroll" => used.n = Number(DefaultScrollPx)

(***************************************************************************)
(* SecurityManager.sanitize_input                                          *)
(***************************************************************************)
\* s has sub in it, starting at some place
Contains(s, sub) ==
    \E i \in 1..(Len(s) - Len(sub) + 1) : SubSeq(s, i, i + Len(sub) - 1) = sub

Txt_lt_script == <<"<", "s", "c", "r", "i", "p", "t">>
Txt_javascript == <<"j", "a", "v", "a", "s", "c", "r", "i", "p", "t", ":">>
Txt_onerror == <<"o", "n", "e", "r", "r", "o", "r", "=">>
Txt_onload == <<"o", "n", "l", "o", "a", "d", "=">>
\* the alternatives of the pattern <script|javascript:|onerror=|onload=
InjectionMarkers == {Txt_lt_script, Txt_javascript, Txt_onerror, Txt_onload}

\* a plausible variant: the search without re.IGNORECASE
sanitize_input_CaseSensitive(s) ==
    IF \E m \in InjectionMarkers : Contains(s, m)
    THEN SelectSeq(s, LAMBDA c : c \notin {"<", ">"})
    ELSE s

\* sanitize_input: re.search(..., re.IGNORECASE), then re.sub(r'<|>', '', s)
sanitize_input(s) ==
    IF \E m \in InjectionMarkers : Contains(Lower(s), m)
    THEN SelectSeq(s, LAMBDA c : c \notin {"<", ">"})
    ELSE s

MaxPieces == 3
SanPieces == {<<"<">>, <<">">>, <<"a">>, <<"/">>, <<"=">>,
              Txt_lt_script, <<"<", "S", "c", "r", "i", "p", "t">>,
              <<"s", "c", "r", "i", "p", "t">>, <<"j", "a", "v", "a">>, <<":">>,
              <<"O", "N", "L", "O", "A", "D">>, <<"o", "n", "e", "r", "r", "o", "r">>}
RECURSIVE Concat(_)
Concat(ps) == IF ps = <<>> THEN <<>> ELSE Head(ps) \o Concat(Tail(ps))
\* the text of the unit test
Txt_test_input == Txt_lt_script \o <<">", "a", "l", "e", "r", "t", "(", "1", ")", "<", "/">>
                    \o <<"s", "c", "r", "i", "p", "t", ">">>
Txt_test_output == <<"s", "c", "r", "i", "p", "t", "a", "l", "e", "r", "t", "(", "1", ")", "/">>
                    \o <<"s", "c", "r", "i", "p", "t">>
SanInputs == {Concat(ps) : ps \in SeqsUpTo(SanPieces, MaxPieces)} \cup {Txt_test_input}

InitSanitize ==
    /\ ParkAllow
    /\ ParkNav
    /\ ParkPool
    /\ ParkRun
    /\ ParkDirect
    /\ ParkSess
    /\ ParkMgr
    /\ ParkLoose
    /\ ParkStore
    /\ ParkRace
    /\ ParkFill
    /\ ParkStep
    /\ ParkBucket
    /\ ParkSel
    /\ ParkResolve
    /\ ParkSave
    /\ ParkMem
    /\ ParkRetry
    /\ ParkTools
    /\ z_in \in SanInputs
    /\ z_done = FALSE
    /\ z_out = <<>>

\* security.sanitize_input(text)
SanitizeCall ==
    /\ ~z_done
    /\ z_done' = TRUE
    /\ z_out' = sanitize_input(z_in)
    /\ UNCHANGED z_in

NextSanitize ==
    \/ SanitizeCall /\ UNCHANGED <<allowVars, navVars, poolVars, runVars, directVars, bucketVars, selVars, resolveVars, saveVars, memVars, retryVars, toolsVars, stepVars, fillVars, raceVars, storeVars, looseVars, mgrVars, sessVars>>

SpecSanitize == InitSanitize /\ [][NextSanitize]_vars

\* C27: sanitize_input returns its input unchanged when it holds none of the markers
\* '<script', 'javascript:', 'onerror=', 'onload=' in any letter case; when it holds
\* one, it returns the input without its '<' and '>', the other characters kept in
\* order; '<script>alert(1)</script>' becomes 'scriptalert(1)/script'.
C27_StripsAngleBracketsOnMarker ==
    z_done =>
        LET marked ==
                \E m \in InjectionMarkers : \E i \in 1..Len(z_in) :
                    /\ i + Len(m) - 1 <= Len(z_in)
                    /\ \A j \in 1..Len(m) : LowerChar(z_in[i + j - 1]) = m[j]
            kept == {i \in 1..Len(z_in) : z_in[i] \notin {"<", ">"}}
            \* the i-th kept place, counted from the left
            Nth(i) == CHOOSE k \in kept : Cardinality({h \in kept : h <= k}) = i
        IN  /\ ~marked => z_out = z_in
            /\ marked =>
                /\ Len(z_out) = Cardinality(kept)
                /\ \A i \in 1..Len(z_out) : z_out[i] = z_in[Nth(i)]
            /\ z_in = Txt_test_input => z_out = Txt_test_output

\* C27: the text of the unit test, sanitized
C27_Witness ==
    /\ z_done
    /\ z_in = Txt_test_input
    /\ z_out = Txt_test_output

(***************************************************************************)
(* The loop of MultiAgentRunner.run, one statement at a time: what is      *)
(* recorded of a step, what the validator answers and when the planner is  *)
(* asked again.  The plan has MaxStepRuns steps.                           *)
(***************************************************************************)
MaxStepRuns == 2

Txt_error == <<"e", "r", "r", "o", "r">>
Txt_timeout == <<"t", "i", "m", "e", "o", "u", "t">>
Txt_not_found == <<"n", "o", "t", " ", "f", "o", "u", "n", "d">>
BadWords == {Txt_error, Txt_timeout, Txt_not_found}

\* ValidatorAgent.validate
validate(observation) ==
    ~ \E k \in BadWords : Contains(Lower(observation), k)

\* a plausible slip: the run keeps one row, the last step
add_step_KeepsLast(steps, idx, action, observation) ==
    <<[idx |-> idx, action |-> action, observation |-> observation]>>

\* MemoryManager.add_step: one more row of the run
add_step(steps, idx, action, observation) ==
    Append(steps, [idx |-> idx, action |-> action, observation |-> observation])

\* the agents classify chooses among
Whos == {"base", "form"}

\* what _execute_step may return
ObsTexts == {<<"o", "k">>,
             <<"E", "r", "r", "o", "r">>,
             <<"a", " ">> \o Txt_timeout,
             <<"N", "o", "t", " ", "F", "o", "u", "n", "d">>,
             <<"n", "o", "t", "f", "o", "u", "n", "d">>}

InitStep ==
    /\ ParkAllow
    /\ ParkNav
    /\ ParkPool
    /\ ParkRun
    /\ ParkDirect
    /\ ParkSess
    /\ ParkMgr
    /\ ParkLoose
    /\ ParkStore
    /\ ParkRace
    /\ ParkFill
    /\ ParkBucket
    /\ ParkSel
    /\ ParkResolve
    /\ ParkSave
    /\ ParkMem
    /\ ParkRetry
    /\ ParkTools
    /\ ParkSan
    /\ e_pc = "head"
    /\ e_idx = 0
    /\ e_cur = <<>>
    /\ e_exec = <<>>
    /\ e_observations = <<>>
    /\ e_steps = <<>>
    /\ e_verdicts = <<>>
    /\ e_replans = <<>>

\* the for statement takes the next step, or the loop is over and run returns
StepHead ==
    /\ e_pc = "head"
    /\ IF e_idx < MaxStepRuns
       THEN /\ e_idx' = e_idx + 1
            /\ e_pc' = "exec"
       ELSE /\ e_pc' = "returned"
            /\ UNCHANGED e_idx
    /\ e_cur' = <<>>
    /\ UNCHANGED <<e_exec, e_observations, e_steps, e_verdicts, e_replans>>

\* obs = agent._execute_step(nav, step) returns; the screenshot, when one is
\* asked for, keeps its exceptions to itself
ExecReturns(who, obs) ==
    /\ e_pc = "exec"
    /\ e_cur' = <<[who |-> who, obs |-> obs]>>
    /\ e_exec' = Append(e_exec, <<[who |-> who, obs |-> obs]>>)
    /\ e_pc' = "append"
    /\ UNCHANGED <<e_idx, e_observations, e_steps, e_verdicts, e_replans>>

\* agent._execute_step(nav, step) raises
ExecRaises ==
    /\ e_pc = "exec"
    /\ e_exec' = Append(e_exec, <<>>)
    /\ e_pc' = "handler"
    /\ UNCHANGED <<e_idx, e_cur, e_observations, e_steps, e_verdicts, e_replans>>

\* observations.append(f'[{who}] {obs}')
AppendObservation ==
    /\ e_pc = "append"
    /\ e_observations' = Append(e_observations, e_cur[1])
    /\ e_pc' = "log"
    /\ UNCHANGED <<e_idx, e_cur, e_exec, e_steps, e_verdicts, e_replans>>

\* self.memory.add_step(run_id, idx, f'{who}:{step}', obs)
AddStep ==
    /\ e_pc = "log"
    /\ e_steps' = add_step(e_steps, e_idx, e_cur[1].who, e_cur[1].obs)
    /\ e_pc' = "validate"
    /\ UNCHANGED <<e_idx, e_cur, e_exec, e_observations, e_verdicts, e_replans>>

\* if not self.validator.validate(obs)
Validate ==
    /\ e_pc = "validate"
    /\ e_verdicts' = Append(e_verdicts, [idx |-> e_idx, valid |-> validate(e_cur[1].obs)])
    /\ e_pc' = IF validate(e_cur[1].obs) THEN "head" ELSE "rejected"
    /\ UNCHANGED <<e_idx, e_cur, e_exec, e_observations, e_steps, e_replans>>

\* the rejected observation: the snapshot, then planner.replan and continue; a
\* snapshot that raises leads to the except clause
RejectedReplans(snapshot_ok) ==
    /\ e_pc = "rejected"
    /\ IF snapshot_ok
       THEN /\ e_replans' = Append(e_replans, [idx |-> e_idx, kind |-> "Validation failed"])
            /\ e_pc' = "head"
       ELSE /\ e_pc' = "handler"
            /\ UNCHANGED e_replans
    /\ UNCHANGED <<e_idx, e_cur, e_exec, e_observations, e_steps, e_verdicts>>

\* the except clause: the snapshot, planner.replan and continue; a snapshot that
\* raises here ends run with the exception
StepHandler(snapshot_ok) ==
    /\ e_pc = "handler"
    /\ IF snapshot_ok
       THEN /\ e_replans' = Append(e_replans, [idx |-> e_idx, kind |-> "Error"])
            /\ e_pc' = "head"
       ELSE /\ e_pc' = "failed"
            /\ UNCHANGED e_replans
    /\ UNCHANGED <<e_idx, e_cur, e_exec, e_observations, e_steps, e_verdicts>>

NextStep ==
    \/ StepHead /\ UNCHANGED <<allowVars, navVars, poolVars, runVars, directVars, bucketVars, selVars, resolveVars, saveVars, memVars, retryVars, toolsVars, sanVars, fillVars, raceVars, storeVars, looseVars, mgrVars, sessVars>>
    \/ \E who \in Whos, obs \in ObsTexts :
            ExecReturns(who, obs) /\ UNCHANGED <<allowVars, navVars, poolVars, runVars, directVars, bucketVars, selVars, resolveVars, saveVars, memVars, retryVars, toolsVars, sanVars, fillVars, raceVars, storeVars, looseVars, mgrVars, sessVars>>
    \/ ExecRaises /\ UNCHANGED <<allowVars, navVars, poolVars, runVars, directVars, bucketVars, selVars, resolveVars, saveVars, memVars, retryVars, toolsVars, sanVars, fillVars, raceVars, storeVars, looseVars, mgrVars, sessVars>>
    \/ AppendObservation /\ UNCHANGED <<allowVars, navVars, poolVars, runVars, directVars, bucketVars, selVars, resolveVars, saveVars, memVars, retryVars, toolsVars, sanVars, fillVars, raceVars, storeVars, looseVars, mgrVars, sessVars>>
    \/ AddStep /\ UNCHANGED <<allowVars, navVars, poolVars, runVars, directVars, bucketVars, selVars, resolveVars, saveVars, memVars, retryVars, toolsVars, sanVars, fillVars, raceVars, storeVars, looseVars, mgrVars, sessVars>>
    \/ Validate /\ UNCHANGED <<allowVars, navVars, poolVars, runVars, directVars, bucketVars, selVars, resolveVars, saveVars, memVars, retryVars, toolsVars, sanVars, fillVars, raceVars, storeVars, looseVars, mgrVars, sessVars>>
    \/ \E snapshot_ok \in BOOLEAN :
            RejectedReplans(snapshot_ok) /\ UNCHANGED <<allowVars, navVars, poolVars, runVars, directVars, bucketVars, selVars, resolveVars, saveVars, memVars, retryVars, toolsVars, sanVars, fillVars, raceVars, storeVars, looseVars, mgrVars, sessVars>>
    \/ \E snapshot_ok \in BOOLEAN :
            StepHandler(snapshot_ok) /\ UNCHANGED <<allowVars, navVars, poolVars, runVars, directVars, bucketVars, selVars, resolveVars, saveVars, memVars, retryVars, toolsVars, sanVars, fillVars, raceVars, storeVars, looseVars, mgrVars, sessVars>>

SpecStep == InitStep /\ [][NextStep]_vars

\* the iterations among the first n whose _execute_step returned, in order
ReturnedIdx(n) == SelectSeq([i \in 1..n |-> i], LAMBDA i : e_exec[i] # <<>>)

HasBadWord(obs) == \E k \in BadWords : Contains(Lower(obs), k)

\* C32: after a step succeeded the run calls the planner's replan if and only if
\* the validator rejects the observation, and the validator rejects exactly the
\* observations that hold 'error', 'timeout' or 'not found' in any letter case;
\* an accepted observation goes on to the next step with no planner call.
C32_ReplanIffRejected ==
    e_pc \in {"head", "returned", "failed"} =>
        \A i \in 1..Len(e_exec) :
            e_exec[i] # <<>> =>
                /\ \E j \in 1..Len(e_verdicts) :
                        /\ e_verdicts[j].idx = i
                        /\ e_verdicts[j].valid = ~HasBadWord(e_exec[i][1].obs)
                /\ (\E j \in 1..Len(e_replans) : e_replans[j].idx = i)
                        <=> HasBadWord(e_exec[i][1].obs)

(***************************************************************************)
(* WebNavigator.type and type_best: the text that reaches page.fill        *)
(***************************************************************************)
MaxFillCalls == 1
MaxMemTries == 2

\* the stages of type_best in which a fill is made
TypeStages == <<"memory", "css", "placeholder", "label",
                "semantic_placeholder", "semantic_label">>

\* the texts a caller types
FillTexts == {<<"h", "i">>,
              <<"<", "b", ">">>,
              Txt_test_input,
              <<"<", "S", "C", "R", "I", "P", "T", ">">>,
              <<"a", " ">> \o Txt_onload \o <<"<", "x", ">">>}

\* a plausible slip: one stage fills with the argument as it came
FillText_RawByLabel(stage, text) ==
    IF stage = "label" THEN text ELSE sanitize_input(text)

\* stext = self.security.sanitize_input(text), which every fill is given
FillText(stage, text) == sanitize_input(text)

InitFill ==
    /\ ParkAllow
    /\ ParkNav
    /\ ParkPool
    /\ ParkRun
    /\ ParkDirect
    /\ ParkSess
    /\ ParkMgr
    /\ ParkLoose
    /\ ParkStore
    /\ ParkRace
    /\ ParkStep
    /\ ParkBucket
    /\ ParkSel
    /\ ParkResolve
    /\ ParkSave
    /\ ParkMem
    /\ ParkRetry
    /\ ParkTools
    /\ ParkSan
    /\ ParkFill

\* a caller enters type(selector, text) or type_best(field, text)
FillCall(via, text) ==
    /\ f_pc = "idle"
    /\ f_calls < MaxFillCalls
    /\ f_calls' = f_calls + 1
    /\ f_pc' = via
    /\ f_text' = text
    /\ f_stage' = 1
    /\ f_i' = 0
    /\ f_attempt' = 0
    /\ f_fills' = <<>>
    /\ f_outcome' = "none"

\* one attempt of type under the retry: wait_for_selector, then fill
TypeAttempt(found, ok) ==
    /\ f_pc = "type"
    /\ f_attempt' = f_attempt + 1
    /\ f_fills' = IF found
                  THEN Append(f_fills, [stage |-> "type", text |-> FillText("type", f_text)])
                  ELSE f_fills
    /\ IF found /\ ok
       THEN /\ f_outcome' = "returned"
            /\ f_pc' = "idle"
       ELSE IF RetryStops(f_attempt + 1, "PlaywrightError")
       THEN /\ f_outcome' = "raised"
            /\ f_pc' = "idle"
       ELSE UNCHANGED <<f_outcome, f_pc>>
    /\ UNCHANGED <<f_text, f_stage, f_i, f_calls>>

\* type_best passes a stage without a fill: no host or nothing remembered, or no
\* semantic candidate, after which the function ends
BestSkip ==
    /\ f_pc = "type_best"
    /\ \/ /\ TypeStages[f_stage] = "memory"
          /\ f_i = 0
          /\ f_stage' = f_stage + 1
          /\ UNCHANGED <<f_pc, f_outcome>>
       \/ /\ TypeStages[f_stage] = "semantic_placeholder"
          /\ f_outcome' = "returned"
          /\ f_pc' = "idle"
          /\ UNCHANGED f_stage
    /\ UNCHANGED <<f_text, f_i, f_attempt, f_fills, f_calls>>

\* one stage of type_best: for a selector (from memory, or the field as CSS) the
\* wait_for_selector and then the fill, for the other stages the fill on the locator;
\* more says whether memory has another selector
BestAttempt(found, ok, more) ==
    /\ f_pc = "type_best"
    /\ LET stage == TypeStages[f_stage]
           fills == stage \notin {"memory", "css"} \/ found
       IN  /\ stage = "memory" => f_i < MaxMemTries
           /\ f_fills' = IF fills
                         THEN Append(f_fills, [stage |-> stage, text |-> FillText(stage, f_text)])
                         ELSE f_fills
           /\ IF fills /\ ok
              THEN /\ f_outcome' = "returned"
                   /\ f_pc' = "idle"
                   /\ UNCHANGED <<f_stage, f_i>>
              ELSE IF stage = "memory" /\ more /\ f_i + 1 < MaxMemTries
              THEN /\ f_i' = f_i + 1
                   /\ UNCHANGED <<f_stage, f_pc, f_outcome>>
              ELSE IF f_stage = Len(TypeStages)
              THEN /\ f_outcome' = "raised"
                   /\ f_pc' = "idle"
                   /\ UNCHANGED <<f_stage, f_i>>
              ELSE /\ f_stage' = f_stage + 1
                   /\ f_i' = IF stage = "memory" THEN f_i + 1 ELSE f_i
                   /\ UNCHANGED <<f_pc, f_outcome>>
    /\ UNCHANGED <<f_text, f_attempt, f_calls>>

NextFill ==
    \/ \E via \in {"type", "type_best"}, text \in FillTexts :
            FillCall(via, text) /\ UNCHANGED <<allowVars, navVars, poolVars, runVars, directVars, bucketVars, selVars, resolveVars, saveVars, memVars, retryVars, toolsVars, sanVars, stepVars, raceVars, storeVars, looseVars, mgrVars, sessVars>>
    \/ \E found, ok \in BOOLEAN :
            TypeAttempt(found, ok) /\ UNCHANGED <<allowVars, navVars, poolVars, runVars, directVars, bucketVars, selVars, resolveVars, saveVars, memVars, retryVars, toolsVars, sanVars, stepVars, raceVars, storeVars, looseVars, mgrVars, sessVars>>
    \/ BestSkip /\ UNCHANGED <<allowVars, navVars, poolVars, runVars, directVars, bucketVars, selVars, resolveVars, saveVars, memVars, retryVars, toolsVars, sanVars, stepVars, raceVars, storeVars, looseVars, mgrVars, sessVars>>
    \/ \E found, ok, more \in BOOLEAN :
            BestAttempt(found, ok, more) /\ UNCHANGED <<allowVars, navVars, poolVars, runVars, directVars, bucketVars, selVars, resolveVars, saveVars, memVars, retryVars, toolsVars, sanVars, stepVars, raceVars, storeVars, looseVars, mgrVars, sessVars>>

SpecFill == InitFill /\ [][NextFill]_vars

\* C33: in every path of type and type_best, whichever stage makes the fill, the
\* text passed to the fill is sanitize_input(text); the raw text is never passed
\* where sanitizing changes it.
C33_EveryFillSanitized ==
    \A i \in 1..Len(f_fills) :
        /\ f_fills[i].text = sanitize_input(f_text)
        /\ Contains(Lower(f_text), Txt_lt_script) =>
                ("<" \notin Range(f_fills[i].text) /\ f_fills[i].text # f_text)

\* C33: type_best filled by label after the earlier stages failed, with a text that
\* sanitizing changes
C33_Witness ==
    /\ f_outcome = "returned"
    /\ Len(f_fills) >= 3
    /\ f_fills[Len(f_fills)].stage = "label"
    /\ f_text # sanitize_input(f_text)

(***************************************************************************)
(* SecurityManager.enforce_rate_limit called by several threads for one    *)
(* origin, with no time passing between the calls: no refill happens.      *)
(* Neither _bucket_for nor TokenBucket.consume takes a lock, so a thread   *)
(* switch may fall between any two of their statements.                    *)
(***************************************************************************)
RaceThreads == {"r1", "r2", "r3"}
RaceLimits == {0, 1, 2}
MaxRaceCalls == 1

\* capacity=max(1, self.rate_limit_per_min)
BucketCapacity(rate_limit_per_min) == Max(1, rate_limit_per_min)

InitRace ==
    /\ ParkAllow
    /\ ParkNav
    /\ ParkPool
    /\ ParkRun
    /\ ParkDirect
    /\ ParkSess
    /\ ParkMgr
    /\ ParkLoose
    /\ ParkStore
    /\ ParkFill
    /\ ParkStep
    /\ ParkBucket
    /\ ParkSel
    /\ ParkResolve
    /\ ParkSave
    /\ ParkMem
    /\ ParkRetry
    /\ ParkTools
    /\ ParkSan
    /\ q_limit \in RaceLimits
    /\ q_buckets = <<>>
    /\ q_tokens = <<>>
    /\ q_th = [t \in RaceThreads |->
                 [pc |-> "idle", bucket |-> 0, read |-> 0, calls |-> 0, admitted |-> <<>>]]

\* a thread enters enforce_rate_limit(url) and _bucket_for(origin)
RaceCall(t) ==
    /\ q_th[t].pc = "idle"
    /\ q_th[t].calls < MaxRaceCalls
    /\ q_th' = [q_th EXCEPT ![t].pc = "check", ![t].calls = @ + 1]
    /\ UNCHANGED <<q_limit, q_buckets, q_tokens>>

\* if origin not in self.buckets
RaceCheck(t) ==
    /\ q_th[t].pc = "check"
    /\ q_th' = [q_th EXCEPT ![t].pc = IF q_buckets = <<>> THEN "create" ELSE "fetch"]
    /\ UNCHANGED <<q_limit, q_buckets, q_tokens>>

\* self.buckets[origin] = TokenBucket(capacity=..., refill_rate_per_sec=...)
RaceCreate(t) ==
    /\ q_th[t].pc = "create"
    /\ q_tokens' = Append(q_tokens, BucketCapacity(q_limit))
    /\ q_buckets' = <<Len(q_tokens) + 1>>
    /\ q_th' = [q_th EXCEPT ![t].pc = "fetch"]
    /\ UNCHANGED q_limit

\* return self.buckets[origin]
RaceFetch(t) ==
    /\ q_th[t].pc = "fetch"
    /\ q_th' = [q_th EXCEPT ![t].pc = "test", ![t].bucket = q_buckets[1]]
    /\ UNCHANGED <<q_limit, q_buckets, q_tokens>>

\* consume: no time has passed, so refill is 0; if self.tokens >= tokens
ConsumeTest(t) ==
    /\ q_th[t].pc = "test"
    /\ q_th' = IF q_tokens[q_th[t].bucket] >= 1
               THEN [q_th EXCEPT ![t].pc = "load"]
               ELSE [q_th EXCEPT ![t].pc = "idle", ![t].admitted = Append(@, 0)]
    /\ UNCHANGED <<q_limit, q_buckets, q_tokens>>

\* self.tokens -= tokens: the attribute is read
ConsumeLoad(t) ==
    /\ q_th[t].pc = "load"
    /\ q_th' = [q_th EXCEPT ![t].pc = "store", ![t].read = q_tokens[q_th[t].bucket]]
    /\ UNCHANGED <<q_limit, q_buckets, q_tokens>>

\* self.tokens -= tokens: the difference is stored; return True
ConsumeStore(t) ==
    /\ q_th[t].pc = "store"
    /\ q_tokens' = [q_tokens EXCEPT ![q_th[t].bucket] = q_th[t].read - 1]
    /\ q_th' = [q_th EXCEPT ![t].pc = "idle", ![t].admitted = Append(@, q_th[t].bucket)]
    /\ UNCHANGED <<q_limit, q_buckets>>

NextRace ==
    \/ \E t \in RaceThreads : RaceCall(t) /\ UNCHANGED <<allowVars, navVars, poolVars, runVars, directVars, bucketVars, selVars, resolveVars, saveVars, memVars, retryVars, toolsVars, sanVars, stepVars, fillVars, storeVars, looseVars, mgrVars, sessVars>>
    \/ \E t \in RaceThreads : RaceCheck(t) /\ UNCHANGED <<allowVars, navVars, poolVars, runVars, directVars, bucketVars, selVars, resolveVars, saveVars, memVars, retryVars, toolsVars, sanVars, stepVars, fillVars, storeVars, looseVars, mgrVars, sessVars>>
    \/ \E t \in RaceThreads : RaceCreate(t) /\ UNCHANGED <<allowVars, navVars, poolVars, runVars, directVars, bucketVars, selVars, resolveVars, saveVars, memVars, retryVars, toolsVars, sanVars, stepVars, fillVars, storeVars, looseVars, mgrVars, sessVars>>
    \/ \E t \in RaceThreads : RaceFetch(t) /\ UNCHANGED <<allowVars, navVars, poolVars, runVars, directVars, bucketVars, selVars, resolveVars, saveVars, memVars, retryVars, toolsVars, sanVars, stepVars, fillVars, storeVars, looseVars, mgrVars, sessVars>>
    \/ \E t \in RaceThreads : ConsumeTest(t) /\ UNCHANGED <<allowVars, navVars, poolVars, runVars, directVars, bucketVars, selVars, resolveVars, saveVars, memVars, retryVars, toolsVars, sanVars, stepVars, fillVars, storeVars, looseVars, mgrVars, sessVars>>
    \/ \E t \in RaceThreads : ConsumeLoad(t) /\ UNCHANGED <<allowVars, navVars, poolVars, runVars, directVars, bucketVars, selVars, resolveVars, saveVars, memVars, retryVars, toolsVars, sanVars, stepVars, fillVars, storeVars, looseVars, mgrVars, sessVars>>
    \/ \E t \in RaceThreads : ConsumeStore(t) /\ UNCHANGED <<allowVars, navVars, poolVars, runVars, directVars, bucketVars, selVars, resolveVars, saveVars, memVars, retryVars, toolsVars, sanVars, stepVars, fillVars, storeVars, looseVars, mgrVars, sessVars>>

SpecRace == InitRace /\ [][NextRace]_vars

\* the calls admitted so far: the bucket each took its token from
AdmittedFrom == {<<t, i>> \in RaceThreads \X (1..MaxRaceCalls) :
                    i <= Len(q_th[t].admitted) /\ q_th[t].admitted[i] # 0}

\* C34: under concurrent first calls of enforce_rate_limit for one origin on one
\* SecurityManager, exactly one TokenBucket is created for the origin and every
\* admitted call takes its token from that bucket, so the calls admitted with no
\* time passing never number more than the bucket's capacity.
C34_OneBucketUnderConcurrentFirstUse ==
    /\ Len(q_tokens) <= 1
    /\ \A c \in AdmittedFrom : q_th[c[1]].admitted[c[2]] = 1
    /\ Cardinality(AdmittedFrom) <= BucketCapacity(q_limit)

(***************************************************************************)
(* SimpleVectorStore.  A text is the list of its tokens, as re.findall     *)
(* gives them for the lower-cased text.  A score is the cosine of two      *)
(* count vectors; two scores against one query are compared exactly,       *)
(* through the squares of their numerators and denominators.               *)
(***************************************************************************)
SmallDim == 2
MaxDocs == 3
Tokens == {"a", "b"}
DocTexts == {<<>>, <<"a">>, <<"b">>, <<"a", "b">>, <<"a", "a", "b">>}
QueryTexts == {<<>>, <<"a">>, <<"a", "b">>}
SearchKs == {0, 2, 5}

\* _embed before the division by the norm: the count of tokens in every cell
Embed(hash, text) ==
    [cell \in 0..(SmallDim - 1) |-> Cardinality({i \in 1..Len(text) : hash[text[i]] = cell})]

RECURSIVE DotUpTo(_, _, _)
DotUpTo(q, v, cell) ==
    IF cell < 0 THEN 0 ELSE q[cell] * v[cell] + DotUpTo(q, v, cell - 1)

\* sum(a*b for a, b in zip(q, v)) of the vectors before normalisation
Dot(q, v) == DotUpTo(q, v, SmallDim - 1)

\* the score of a text against a query: the square of the cosine as a fraction,
\* less the query's own norm, which all scores of one search share; a vector of
\* zeros is divided by 1.0
Score(hash, query, text) ==
    LET q == Embed(hash, query)
        v == Embed(hash, text)
    IN  [num |-> Dot(q, v) * Dot(q, v), den |-> IF Dot(v, v) = 0 THEN 1 ELSE Dot(v, v)]

ScoreLess(x, y) == x.num * y.den < y.num * x.den
ScoreEqual(x, y) == x.num * y.den = y.num * x.den

\* a plausible slip: sorted ascending and then reversed, which turns ties around
RECURSIVE SortedDesc_Reversed(_, _)
SortedDesc_Reversed(score, n) ==
    IF n = 0
    THEN <<>>
    ELSE LET rest == SortedDesc_Reversed(score, n - 1)
             before == {j \in 1..Len(rest) : ScoreLess(score[n], score[rest[j]])}
             at == Cardinality(before)
         IN  SubSeq(rest, 1, at) \o <<n>> \o SubSeq(rest, at + 1, Len(rest))

\* scores.sort(key=lambda x: x[1], reverse=True): the indices 1..n by score, highest
\* first; the sort is stable, also with reverse=True
RECURSIVE SortedDesc(_, _)
SortedDesc(score, n) ==
    IF n = 0
    THEN <<>>
    ELSE LET rest == SortedDesc(score, n - 1)
             before == {j \in 1..Len(rest) : ~ScoreLess(score[rest[j]], score[n])}
             at == Cardinality(before)
         IN  SubSeq(rest, 1, at) \o <<n>> \o SubSeq(rest, at + 1, Len(rest))

\* similarity_search: the places in docs of the first k after the sort
similarity_search(hash, docs, query, k) ==
    LET score == [i \in 1..Len(docs) |-> Score(hash, query, docs[i])]
        sorted == SortedDesc(score, Len(docs))
    IN  SubSeq(sorted, 1, Min(k, Len(sorted)))

InitStore ==
    /\ ParkAllow
    /\ ParkNav
    /\ ParkPool
    /\ ParkRun
    /\ ParkDirect
    /\ ParkSess
    /\ ParkMgr
    /\ ParkLoose
    /\ ParkRace
    /\ ParkFill
    /\ ParkStep
    /\ ParkBucket
    /\ ParkSel
    /\ ParkResolve
    /\ ParkSave
    /\ ParkMem
    /\ ParkRetry
    /\ ParkTools
    /\ ParkSan
    /\ k_hash \in [Tokens -> 0..(SmallDim - 1)]
    /\ k_docs = <<>>
    /\ k_call = <<>>

\* add_texts(texts)
AddTexts(texts) ==
    /\ Len(k_docs) + Len(texts) <= MaxDocs
    /\ k_docs' = k_docs \o texts
    /\ k_call' = <<>>
    /\ UNCHANGED k_hash

\* similarity_search(query, k)
SearchCall(query, k) ==
    /\ k_call' = <<[query |-> query, k |-> k,
                    result |-> similarity_search(k_hash, k_docs, query, k)]>>
    /\ UNCHANGED <<k_hash, k_docs>>

NextStore ==
    \/ \E texts \in SeqsUpTo(DocTexts, 2) \ {<<>>} :
            AddTexts(texts) /\ UNCHANGED <<allowVars, navVars, poolVars, runVars, directVars, bucketVars, selVars, resolveVars, saveVars, memVars, retryVars, toolsVars, sanVars, stepVars, fillVars, raceVars, looseVars, mgrVars, sessVars>>
    \/ \E query \in QueryTexts, k \in SearchKs :
            SearchCall(query, k) /\ UNCHANGED <<allowVars, navVars, poolVars, runVars, directVars, bucketVars, selVars, resolveVars, saveVars, memVars, retryVars, toolsVars, sanVars, stepVars, fillVars, raceVars, looseVars, mgrVars, sessVars>>

SpecStore == InitStore /\ [][NextStore]_vars

\* C35: similarity_search(query, k) returns min(k, number of indexed texts)
\* candidates, ordered by non-increasing similarity to the query, the best ones of
\* the store, and candidates of equal score stand in the order they were added.
C35_TopKByScoreTiesInInsertionOrder ==
    k_call # <<>> =>
        LET c == k_call[1]
            r == c.result
            sc(i) == Score(k_hash, c.query, k_docs[i])
        IN  /\ Len(r) = Min(c.k, Len(k_docs))
            /\ \A a \in 1..Len(r) : r[a] \in 1..Len(k_docs)
            /\ \A a, b \in 1..Len(r) :
                    a < b => /\ r[a] # r[b]
                             /\ ~ScoreLess(sc(r[a]), sc(r[b]))
                             /\ ScoreEqual(sc(r[a]), sc(r[b])) => r[a] < r[b]
            /\ \A a \in 1..Len(r) : \A i \in 1..Len(k_docs) :
                    (\A b \in 1..Len(r) : r[b] # i) =>
                        /\ ~ScoreLess(sc(r[a]), sc(i))
                        /\ ScoreEqual(sc(r[a]), sc(i)) => r[a] < i

\* C35: a search that cut the list inside a tie and returned texts of different scores
C35_Witness ==
    /\ k_call # <<>>
    /\ Len(k_docs) = MaxDocs
    /\ Len(k_call[1].result) = 2
    /\ LET r == k_call[1].result
           sc(i) == Score(k_hash, k_call[1].query, k_docs[i])
       IN  /\ ScoreLess(sc(r[2]), sc(r[1]))
           /\ \E i \in 1..Len(k_docs) : i \notin Range(r) /\ ScoreEqual(sc(i), sc(r[2]))

(***************************************************************************)
(* BaseAgent._execute_step: the loose reading of a step in plain words     *)
(***************************************************************************)
StartsWith(s, d) ==
    /\ Len(d) <= Len(s)
    /\ SubSeq(s, 1, Len(d)) = d

\* str.split(): the runs of characters between the spaces
RECURSIVE Split(_)
Split(s) ==
    LET t == LStrip(s)
        sp == FirstIdx(t, {Space}, 1)
    IN  IF t = <<>> THEN <<>>
        ELSE IF sp = 0 THEN <<t>>
        ELSE <<SubSeq(t, 1, sp - 1)>> \o Split(SubSeq(t, sp + 1, Len(t)))

Txt_navigate == <<"n", "a", "v", "i", "g", "a", "t", "e">>
Txt_search == <<"s", "e", "a", "r", "c", "h">>
Txt_http_prefix == Http \o <<":", "/", "/">>
Txt_https_prefix == Https \o <<":", "/", "/">>

IsUrlToken(token) == StartsWith(token, Txt_http_prefix) \/ StartsWith(token, Txt_https_prefix)

\* for token in step.split(): if token.startswith(...): url = token
RECURSIVE NavigateUrl(_, _)
NavigateUrl(tokens, url) ==
    IF tokens = <<>>
    THEN url
    ELSE NavigateUrl(Tail(tokens), IF IsUrlToken(Head(tokens)) THEN Head(tokens) ELSE url)

\* _execute_step: the branch the step takes, and for navigate / open the url
\* that nav.goto is given
execute_step(step) ==
    LET s == Strip(Lower(step))
    IN  IF StartsWith(s, Txt_navigate) \/ StartsWith(s, Txt_open)
        THEN [branch |-> "navigate", url |-> <<NavigateUrl(Split(step), Txt_example)>>]
        ELSE IF StartsWith(s, Txt_search) THEN [branch |-> "search", url |-> <<>>]
        ELSE IF StartsWith(s, Txt_click) THEN [branch |-> "click", url |-> <<>>]
        ELSE IF StartsWith(s, Txt_type) \/ StartsWith(s, Txt_fill)
        THEN [branch |-> "type", url |-> <<>>]
        ELSE IF StartsWith(s, Txt_wait) THEN [branch |-> "wait", url |-> <<>>]
        ELSE IF StartsWith(s, Txt_extract) \/ Contains(s, Txt_title)
        THEN [branch |-> "extract", url |-> <<>>]
        ELSE [branch |-> "noop", url |-> <<>>]

MaxWords == 3
Words == {Txt_navigate, <<"O", "p", "e", "n">>, Txt_click,
          Txt_http_prefix \o <<"a">>, Txt_https_prefix \o <<"b">>,
          <<"H", "T", "T", "P", ":", "/", "/", "c">>}

RECURSIVE Join(_)
Join(ws) ==
    IF ws = <<>> THEN <<>>
    ELSE IF Len(ws) = 1 THEN ws[1]
    ELSE ws[1] \o <<Space>> \o Join(Tail(ws))

LooseSteps == {Join(ws) : ws \in SeqsUpTo(Words, MaxWords)} \cup
              {<<Space>> \o Txt_open \o <<Space, Space>> \o Txt_https_prefix \o <<"b", Space>>}

InitLoose ==
    /\ ParkAllow
    /\ ParkNav
    /\ ParkPool
    /\ ParkRun
    /\ ParkDirect
    /\ ParkSess
    /\ ParkMgr
    /\ ParkStore
    /\ ParkRace
    /\ ParkFill
    /\ ParkStep
    /\ ParkBucket
    /\ ParkSel
    /\ ParkResolve
    /\ ParkSave
    /\ ParkMem
    /\ ParkRetry
    /\ ParkTools
    /\ ParkSan
    /\ l_step \in LooseSteps
    /\ l_done = FALSE
    /\ l_result = <<>>

\* agent._execute_step(nav, step)
ExecuteStep ==
    /\ ~l_done
    /\ l_done' = TRUE
    /\ l_result' = <<execute_step(l_step)>>
    /\ UNCHANGED l_step

NextLoose ==
    ExecuteStep /\ UNCHANGED <<allowVars, navVars, poolVars, runVars, directVars, bucketVars, selVars, resolveVars, saveVars, memVars, retryVars, toolsVars, sanVars, stepVars, fillVars, raceVars, storeVars, mgrVars, sessVars>>

SpecLoose == InitLoose /\ [][NextLoose]_vars

\* C36: in the loose reading of a step, a step that starts with navigate or open
\* navigates to the first http:// or https:// token of the step's text, also when
\* the step holds several such tokens.
C36_NavigatesToFirstUrlToken ==
    (l_done /\ l_result[1].branch = "navigate") =>
        \A i \in 1..Len(Split(l_step)) :
            (IsUrlToken(Split(l_step)[i]) /\ \A j \in 1..(i - 1) : ~IsUrlToken(Split(l_step)[j]))
                => l_result[1].url = <<Split(l_step)[i]>>

(***************************************************************************)
(* RunManager.start and stop called from several threads, as the request   *)
(* handlers of ui/server.py call them, one statement at a time: neither    *)
(* takes a lock.  A run's target polls should_stop at its step boundaries. *)
(***************************************************************************)
StartCallers == {"c1", "c2"}
StopCallers == {"s1"}
MaxMgrCalls == 1

InitMgr ==
    /\ ParkAllow
    /\ ParkNav
    /\ ParkPool
    /\ ParkRun
    /\ ParkDirect
    /\ ParkSess
    /\ ParkLoose
    /\ ParkStore
    /\ ParkRace
    /\ ParkFill
    /\ ParkStep
    /\ ParkBucket
    /\ ParkSel
    /\ ParkResolve
    /\ ParkSave
    /\ ParkMem
    /\ ParkRetry
    /\ ParkTools
    /\ ParkSan
    /\ w_clock = 0
    /\ w_running = FALSE
    /\ w_stop_event = <<>>
    /\ w_last_result = <<>>
    /\ w_callers = [c \in StartCallers \cup StopCallers |->
                      [pc |-> "idle", calls |-> 0, called_at |-> 0, returned |-> <<>>]]
    /\ w_runs = <<>>

\* a thread calls start(target): if self.state.running: return False
MgrStartCall(c) ==
    /\ c \in StartCallers
    /\ w_callers[c].pc = "idle"
    /\ w_callers[c].calls < MaxMgrCalls
    /\ w_clock' = w_clock + 1
    /\ w_callers' = [w_callers EXCEPT ![c] =
                        [pc |-> IF w_running THEN "idle" ELSE "clear",
                         calls |-> @.calls + 1,
                         called_at |-> w_clock + 1,
                         returned |-> IF w_running THEN <<FALSE>> ELSE <<>>]]
    /\ UNCHANGED <<w_running, w_stop_event, w_last_result, w_runs>>

\* self.state.stop_event.clear()
MgrStartClear(c) ==
    /\ c \in StartCallers
    /\ w_callers[c].pc = "clear"
    /\ w_stop_event' = <<>>
    /\ w_callers' = [w_callers EXCEPT ![c].pc = "set"]
    /\ UNCHANGED <<w_clock, w_running, w_last_result, w_runs>>

\* self.state.running = True
MgrStartSet(c) ==
    /\ c \in StartCallers
    /\ w_callers[c].pc = "set"
    /\ w_running' = TRUE
    /\ w_callers' = [w_callers EXCEPT ![c].pc = "spawn"]
    /\ UNCHANGED <<w_clock, w_stop_event, w_last_result, w_runs>>

\* t = Thread(target=_runner, daemon=True); t.start(); return True
MgrStartSpawn(c) ==
    /\ c \in StartCallers
    /\ w_callers[c].pc = "spawn"
    /\ w_runs' = Append(w_runs, [pc |-> "target", start_called_at |-> w_callers[c].called_at,
                                 first_poll |-> <<>>])
    /\ w_callers' = [w_callers EXCEPT ![c].pc = "idle", ![c].returned = <<TRUE>>]
    /\ UNCHANGED <<w_clock, w_running, w_stop_event, w_last_result>>

\* a thread calls stop(): if self.state.running
MgrStopCall(c) ==
    /\ c \in StopCallers
    /\ w_callers[c].pc = "idle"
    /\ w_callers[c].calls < MaxMgrCalls
    /\ w_clock' = w_clock + 1
    /\ w_callers' = [w_callers EXCEPT ![c] =
                        [pc |-> IF w_running THEN "set" ELSE "idle",
                         calls |-> @.calls + 1,
                         called_at |-> w_clock + 1,
                         returned |-> <<>>]]
    /\ UNCHANGED <<w_running, w_stop_event, w_last_result, w_runs>>

\* self.state.stop_event.set()
MgrStopSet(c) ==
    /\ c \in StopCallers
    /\ w_callers[c].pc = "set"
    /\ w_stop_event' = <<w_callers[c].called_at>>
    /\ w_callers' = [w_callers EXCEPT ![c].pc = "idle"]
    /\ UNCHANGED <<w_clock, w_running, w_last_result, w_runs>>

\* the target reaches its first step boundary and asks should_stop()
MgrFirstPoll(r) ==
    /\ w_runs[r].pc = "target"
    /\ w_runs[r].first_poll = <<>>
    /\ w_runs' = [w_runs EXCEPT ![r].first_poll = <<w_stop_event>>]
    /\ UNCHANGED <<w_clock, w_running, w_stop_event, w_last_result, w_callers>>

\* the target returns or raises: last_result is the result or {'error': ...}
MgrTargetEnds(r, raised) ==
    /\ w_runs[r].pc = "target"
    /\ w_last_result' = <<[run |-> r, error |-> raised]>>
    /\ w_runs' = [w_runs EXCEPT ![r].pc = "finally"]
    /\ UNCHANGED <<w_clock, w_running, w_stop_event, w_callers>>

\* finally: self.state.running = False
MgrRunnerFinally(r) ==
    /\ w_runs[r].pc = "finally"
    /\ w_running' = FALSE
    /\ w_runs' = [w_runs EXCEPT ![r].pc = "done"]
    /\ UNCHANGED <<w_clock, w_stop_event, w_last_result, w_callers>>

NextMgr ==
    \/ \E c \in StartCallers : MgrStartCall(c) /\ UNCHANGED <<allowVars, navVars, poolVars, runVars, directVars, bucketVars, selVars, resolveVars, saveVars, memVars, retryVars, toolsVars, sanVars, stepVars, fillVars, raceVars, storeVars, looseVars, sessVars>>
    \/ \E c \in StartCallers : MgrStartClear(c) /\ UNCHANGED <<allowVars, navVars, poolVars, runVars, directVars, bucketVars, selVars, resolveVars, saveVars, memVars, retryVars, toolsVars, sanVars, stepVars, fillVars, raceVars, storeVars, looseVars, sessVars>>
    \/ \E c \in StartCallers : MgrStartSet(c) /\ UNCHANGED <<allowVars, navVars, poolVars, runVars, directVars, bucketVars, selVars, resolveVars, saveVars, memVars, retryVars, toolsVars, sanVars, stepVars, fillVars, raceVars, storeVars, looseVars, sessVars>>
    \/ \E c \in StartCallers : MgrStartSpawn(c) /\ UNCHANGED <<allowVars, navVars, poolVars, runVars, directVars, bucketVars, selVars, resolveVars, saveVars, memVars, retryVars, toolsVars, sanVars, stepVars, fillVars, raceVars, storeVars, looseVars, sessVars>>
    \/ \E c \in StopCallers : MgrStopCall(c) /\ UNCHANGED <<allowVars, navVars, poolVars, runVars, directVars, bucketVars, selVars, resolveVars, saveVars, memVars, retryVars, toolsVars, sanVars, stepVars, fillVars, raceVars, storeVars, looseVars, sessVars>>
    \/ \E c \in StopCallers : MgrStopSet(c) /\ UNCHANGED <<allowVars, navVars, poolVars, runVars, directVars, bucketVars, selVars, resolveVars, saveVars, memVars, retryVars, toolsVars, sanVars, stepVars, fillVars, raceVars, storeVars, looseVars, sessVars>>
    \/ \E r \in 1..Len(w_runs) : MgrFirstPoll(r) /\ UNCHANGED <<allowVars, navVars, poolVars, runVars, directVars, bucketVars, selVars, resolveVars, saveVars, memVars, retryVars, toolsVars, sanVars, stepVars, fillVars, raceVars, storeVars, looseVars, sessVars>>
    \/ \E r \in 1..Len(w_runs), raised \in BOOLEAN :
            MgrTargetEnds(r, raised) /\ UNCHANGED <<allowVars, navVars, poolVars, runVars, directVars, bucketVars, selVars, resolveVars, saveVars, memVars, retryVars, toolsVars, sanVars, stepVars, fillVars, raceVars, storeVars, looseVars, sessVars>>
    \/ \E r \in 1..Len(w_runs) : MgrRunnerFinally(r) /\ UNCHANGED <<allowVars, navVars, poolVars, runVars, directVars, bucketVars, selVars, resolveVars, saveVars, memVars, retryVars, toolsVars, sanVars, stepVars, fillVars, raceVars, storeVars, looseVars, sessVars>>

SpecMgr == InitMgr /\ [][NextMgr]_vars

\* the runs whose thread has not ended
RunsInProgress == {r \in 1..Len(w_runs) : w_runs[r].pc # "done"}

\* C37: at most one run started through RunManager is in progress at any time,
\* also under concurrent start calls; a start while a run is in progress returns
\* False and starts no thread; and a run's end leaves running false and last_result
\* set.
C37_AtMostOneRunInProgress ==
    /\ Cardinality(RunsInProgress) <= 1
    /\ RunsInProgress # {} => w_running
    /\ Len(w_runs) = Cardinality({c \in StartCallers : w_callers[c].returned = <<TRUE>>})

\* C38: a run never observes a stop request made before it started: should_stop()
\* at the first step boundary of a run is true only when stop() was called after
\* that run's start() was.
C38_NoStopFromBeforeTheStart ==
    \A r \in 1..Len(w_runs) :
        (w_runs[r].first_poll # <<>> /\ w_runs[r].first_poll[1] # <<>>) =>
            w_runs[r].first_poll[1][1] > w_runs[r].start_called_at

(***************************************************************************)
(* WebNavigator.start, stop, __enter__ and __exit__, and the way            *)
(* MultiAgentRunner.run opens its navigator: the with-statement calls       *)
(* start() with the defaults, and the body then calls start again with the  *)
(* options of its OrchestratorConfig.  A navigator is the record of its         *)
(* handles, together with the playwright objects that are open.             *)
(***************************************************************************)
MaxSessCalls == 3

DownloadPaths == {<<>>, <<"">>, <<"downloads">>}

StartFails == {"none", "playwright", "launch", "context", "page"}

StopOrder == <<"page", "context", "browser", "playwright">>

StopFails == {"none"} \cup {StopOrder[i] : i \in 1..Len(StopOrder)}

\* ctx_opts: empty unless downloads_path is a non-empty string
CtxOpts(downloads_path) ==
    IF downloads_path # <<>> /\ downloads_path[1] # ""
    THEN <<TRUE, downloads_path[1]>>
    ELSE <<>>

\* start without its first two lines: a navigator that is started is started again
start_Restarts(nav, headless, downloads_path, fail) ==
    [playwright |-> TRUE, browser |-> <<headless>>,
     context |-> <<CtxOpts(downloads_path)>>, page |-> TRUE,
     live |-> nav.live \cup {"playwright", "browser", "context", "page"},
     raised |-> FALSE]

\* start: fail names the playwright call that raises, "none" when none does
start(nav, headless, downloads_path, fail) ==
    IF nav.playwright THEN [nav EXCEPT !.raised = FALSE]
    ELSE IF fail = "playwright" THEN [nav EXCEPT !.raised = TRUE]
    ELSE IF fail = "launch"
    THEN [nav EXCEPT !.playwright = TRUE, !.live = @ \cup {"playwright"}, !.raised = TRUE]
    ELSE IF fail = "context"
    THEN [nav EXCEPT !.playwright = TRUE, !.browser = <<headless>>,
                     !.live = @ \cup {"playwright", "browser"}, !.raised = TRUE]
    ELSE IF fail = "page"
    THEN [nav EXCEPT !.playwright = TRUE, !.browser = <<headless>>,
                     !.context = <<CtxOpts(downloads_path)>>,
                     !.live = @ \cup {"playwright", "browser", "context"}, !.raised = TRUE]
    ELSE [nav EXCEPT !.playwright = TRUE, !.browser = <<headless>>,
                     !.context = <<CtxOpts(downloads_path)>>, !.page = TRUE,
                     !.live = @ \cup {"playwright", "browser", "context", "page"},
                     !.raised = FALSE]

\* the truth value of the handle that stop tests before a close
Held(nav, name) ==
    CASE name = "page" -> nav.page
      [] name = "context" -> nav.context # <<>>
      [] name = "browser" -> nav.browser # <<>>
      [] name = "playwright" -> nav.playwright

\* the closes stop completes when the close named fail raises: those of the
\* handles held, in order, before the first one that raises
ClosedBy(nav, fail) ==
    {StopOrder[i] : i \in {j \in 1..Len(StopOrder) :
        /\ Held(nav, StopOrder[j])
        /\ \A m \in 1..j : ~(StopOrder[m] = fail /\ Held(nav, StopOrder[m]))}}

\* stop: what a close raises is suppressed, the four handles are set to None
stop(nav, fail) ==
    [playwright |-> FALSE, browser |-> <<>>, context |-> <<>>, page |-> FALSE,
     live |-> nav.live \ ClosedBy(nav, fail), raised |-> FALSE]

Navigator ==
    [playwright |-> h_playwright, browser |-> h_browser, context |-> h_context,
     page |-> h_page, live |-> h_live, raised |-> h_raised]

Handles(nav) ==
    [playwright |-> nav.playwright, browser |-> nav.browser,
     context |-> nav.context, page |-> nav.page]

NoHandles == [playwright |-> FALSE, browser |-> <<>>, context |-> <<>>, page |-> FALSE]

InitSess ==
    /\ ParkAllow
    /\ ParkNav
    /\ ParkPool
    /\ ParkRun
    /\ ParkDirect
    /\ ParkMgr
    /\ ParkLoose
    /\ ParkStore
    /\ ParkRace
    /\ ParkFill
    /\ ParkStep
    /\ ParkBucket
    /\ ParkSel
    /\ ParkResolve
    /\ ParkSave
    /\ ParkMem
    /\ ParkRetry
    /\ ParkTools
    /\ ParkSan
    /\ h_playwright = FALSE
    /\ h_browser = <<>>
    /\ h_context = <<>>
    /\ h_page = FALSE
    /\ h_live = {}
    /\ h_cfg \in [headless : BOOLEAN, downloads_dir : DownloadPaths]
    /\ h_op = "none"
    /\ h_args = <<>>
    /\ h_before = NoHandles
    /\ h_raised = FALSE
    /\ h_calls = 0

\* one call returns or raises: the navigator it leaves, and what is kept of the call
SessCall(op, args, after) ==
    /\ h_calls < MaxSessCalls
    /\ h_calls' = h_calls + 1
    /\ h_op' = op
    /\ h_args' = args
    /\ h_before' = Handles(Navigator)
    /\ h_playwright' = after.playwright
    /\ h_browser' = after.browser
    /\ h_context' = after.context
    /\ h_page' = after.page
    /\ h_live' = after.live
    /\ h_raised' = after.raised
    /\ UNCHANGED h_cfg

\* with nav: ...  calls __enter__, which calls start() with the defaults
SessEnter(fail) ==
    SessCall("enter", <<TRUE, <<>>>>, start(Navigator, TRUE, <<>>, fail))

\* the first line of the with-block of MultiAgentRunner.run
SessRunStart(fail) ==
    /\ h_op = "enter"
    /\ ~h_raised
    /\ SessCall("run_start", <<h_cfg.headless, h_cfg.downloads_dir>>,
                start(Navigator, h_cfg.headless, h_cfg.downloads_dir, fail))

SessStart(headless, downloads_path, fail) ==
    SessCall("start", <<headless, downloads_path>>,
             start(Navigator, headless, downloads_path, fail))

SessStop(fail) ==
    SessCall("stop", <<>>, stop(Navigator, fail))

\* leaving the with-block calls __exit__, which calls stop()
SessExit(fail) ==
    /\ h_op # "none"
    /\ SessCall("exit", <<>>, stop(Navigator, fail))

NextSess ==
    \/ \E fail \in StartFails : SessEnter(fail) /\ UNCHANGED <<allowVars, navVars, poolVars, runVars, directVars, bucketVars, selVars, resolveVars, saveVars, memVars, retryVars, toolsVars, sanVars, stepVars, fillVars, raceVars, storeVars, looseVars, mgrVars>>
    \/ \E fail \in StartFails : SessRunStart(fail) /\ UNCHANGED <<allowVars, navVars, poolVars, runVars, directVars, bucketVars, selVars, resolveVars, saveVars, memVars, retryVars, toolsVars, sanVars, stepVars, fillVars, raceVars, storeVars, looseVars, mgrVars>>
    \/ \E headless \in BOOLEAN, downloads_path \in DownloadPaths, fail \in StartFails :
            SessStart(headless, downloads_path, fail) /\ UNCHANGED <<allowVars, navVars, poolVars, runVars, directVars, bucketVars, selVars, resolveVars, saveVars, memVars, retryVars, toolsVars, sanVars, stepVars, fillVars, raceVars, storeVars, looseVars, mgrVars>>
    \/ \E fail \in StopFails : SessStop(fail) /\ UNCHANGED <<allowVars, navVars, poolVars, runVars, directVars, bucketVars, selVars, resolveVars, saveVars, memVars, retryVars, toolsVars, sanVars, stepVars, fillVars, raceVars, storeVars, looseVars, mgrVars>>
    \/ \E fail \in StopFails : SessExit(fail) /\ UNCHANGED <<allowVars, navVars, poolVars, runVars, directVars, bucketVars, selVars, resolveVars, saveVars, memVars, retryVars, toolsVars, sanVars, stepVars, fillVars, raceVars, storeVars, looseVars, mgrVars>>

SpecSess == InitSess /\ [][NextSess]_vars

=============================================================================
